---------------------------- MODULE Spec2Model ----------------------------
(***************************************************************************)
(* Model of the Jenkins AI code reviewer adapter (src/src/index.js, the    *)
(* JenkinsAdapter class that uses ./security) and of its security module   *)
(* (validateGitUrl, validateBranchName, ...).                              *)
(*                                                                         *)
(* JavaScript strings are sequences of one-character strings.  A           *)
(* JavaScript value is a record [t, s]: t is the typeof tag ("string",     *)
(* "null", "number") and s the characters of a string.                     *)
(***************************************************************************)
EXTENDS Integers, Sequences, FiniteSets, TLC

VARIABLES
    pc,          \* position of run() (and of getDiffFromGit inside it)
    params,      \* this.params
    err,         \* the error caught by run()'s catch block ("" when none)
    log,         \* the side effects of the run, in the order they happened
    diff,        \* diffData of run(): [have, text]
    results,     \* the results of reviewer.reviewChanges
    exitCode,    \* "none" while the process runs, then "0" or "1"
    envSet,      \* process.env.LLM_API_KEY / LLM_ENDPOINT assigned
    cwd,         \* process.cwd(): "orig" or "tmp"
    tmpDirExists,\* the temporary clone directory is on disk
    cleanupFailed,\* a cleanup step of getDiffFromGit (chdir back, rm -rf) threw
    stdin,       \* the promise and listeners of getDiffFromStdin
    secIn,       \* input of a security function
    secOut,      \* its outcome
    caller,      \* "run" inside adapter.run(), "direct" when a method of the
                 \* adapter is called on its own, "none" before either
    inv,         \* concurrent invocations of the git-clone acquisition
    host,        \* the clock of the host and the owner of each directory name
    api,         \* a request of the GitHub API path and its attempts
    pub          \* the publishing of the comments of one review

runVars == <<pc, params, err, log, diff, results, exitCode, envSet, cwd,
             tmpDirExists, cleanupFailed, stdin, caller>>
secVars == <<secIn, secOut>>
tmpVars == <<inv, host>>
apiVars == <<api, pub>>
\* what a step of the run leaves alone
otherVars == <<secIn, secOut, inv, host, api, pub>>
vars == <<pc, params, err, log, diff, results, exitCode, envSet, cwd,
          tmpDirExists, cleanupFailed, stdin, caller, secIn, secOut, inv, host,
          api, pub>>

----------------------------------------------------------------------------
(* Bounds                                                                  *)

\* longest owner / repository segment of the generated git URLs
MaxSegLen == 2
\* last millisecond of the clock of the host
MaxClock == 2
\* number of values the random suffix of createSecureTempDir can take
MaxRand == 2
\* most line-level comments of a published review
MaxPosts == 3
\* most 'data' events stdin emits in one run
MaxChunks == 2
\* most comments of a review result
MaxComments == 2
\* longest generated branch name, file path, environment value and shell
\* argument
MaxNameLen == 3

----------------------------------------------------------------------------
(* JavaScript values and strings                                           *)

Str(s) == [t |-> "string", s |-> s]
JSNull == [t |-> "null", s |-> <<>>]
JSUndefined == [t |-> "undefined", s |-> <<>>]
JSNumber == [t |-> "number", s |-> <<>>]

\* !v of JavaScript for the values of the model: null, undefined and "" are
\* falsy
Falsy(v) == v.t \in {"null", "undefined"} \/ (v.t = "string" /\ v.s = <<>>)

\* the character ` (a string of the module cannot hold it)
BackTick == "backtick"

\* the characters String.prototype.trim removes that the model uses
WhiteSpace == {" ", "\t", "\n", "\r"}

RECURSIVE TrimStart(_)
TrimStart(s) ==
    IF s # <<>> /\ Head(s) \in WhiteSpace THEN TrimStart(Tail(s)) ELSE s

RECURSIVE TrimEnd(_)
TrimEnd(s) ==
    IF s # <<>> /\ s[Len(s)] \in WhiteSpace
    THEN TrimEnd(SubSeq(s, 1, Len(s) - 1))
    ELSE s

Trim(s) == TrimEnd(TrimStart(s))

Includes(s, p) ==
    \E i \in 1..(Len(s) - Len(p) + 1) : SubSeq(s, i, i + Len(p) - 1) = p

StartsWith(s, p) == Len(s) >= Len(p) /\ SubSeq(s, 1, Len(p)) = p

EndsWith(s, p) ==
    Len(s) >= Len(p) /\ SubSeq(s, Len(s) - Len(p) + 1, Len(s)) = p

\* the regular expression class \w
WordChars ==
    {"a","b","c","d","e","f","g","h","i","j","k","l","m","n","o","p","q",
     "r","s","t","u","v","w","x","y","z",
     "A","B","C","D","E","F","G","H","I","J","K","L","M","N","O","P","Q",
     "R","S","T","U","V","W","X","Y","Z",
     "0","1","2","3","4","5","6","7","8","9","_"}

AllIn(s, class) == \A i \in 1..Len(s) : s[i] \in class

\* the first pattern of the list that occurs in s (0 when none does): the
\* for loop over suspiciousPatterns throws at the first hit
FirstPattern(patterns, s) ==
    IF \E i \in 1..Len(patterns) : Includes(s, patterns[i])
    THEN CHOOSE i \in 1..Len(patterns) :
            /\ Includes(s, patterns[i])
            /\ \A j \in 1..(i - 1) : ~Includes(s, patterns[j])
    ELSE 0

\* what a call gives: the value returned, or the message of the error thrown
\* with the pattern and the variable name the message quotes
Ok(v) ==
    [ok |-> TRUE, value |-> v, error |-> "", pattern |-> <<>>, name |-> <<>>]
Throw(msg) ==
    [ok |-> FALSE, value |-> <<>>, error |-> msg, pattern |-> <<>>, name |-> <<>>]
ThrowPattern(msg, p) ==
    [ok |-> FALSE, value |-> <<>>, error |-> msg, pattern |-> p, name |-> <<>>]
ThrowNamed(msg, n, p) ==
    [ok |-> FALSE, value |-> <<>>, error |-> msg, pattern |-> p, name |-> n]

----------------------------------------------------------------------------
(* security.js                                                             *)

HttpsGithub ==
    <<"h","t","t","p","s",":","/","/","g","i","t","h","u","b",".","c","o","m","/">>
DotGit == <<".","g","i","t">>

\* [\w\-\.]
UrlSegmentClass == WordChars \cup {"-", "."}

\* /^https:\/\/github\.com\/[\w\-\.]+\/[\w\-\.]+\.git$/ : after the prefix,
\* one or more class characters, a slash, one or more class characters and
\* ".git" at the end of the string ("/" is not in the class, so the slash of
\* the match is the only slash of the rest)
GithubHttpsRegex(s) ==
    /\ StartsWith(s, HttpsGithub)
    /\ LET rest == SubSeq(s, Len(HttpsGithub) + 1, Len(s))
       IN  /\ EndsWith(rest, DotGit)
           /\ LET body == SubSeq(rest, 1, Len(rest) - Len(DotGit))
              IN  \E i \in 2..(Len(body) - 1) :
                    /\ body[i] = "/"
                    /\ AllIn(SubSeq(body, 1, i - 1), UrlSegmentClass)
                    /\ AllIn(SubSeq(body, i + 1, Len(body)), UrlSegmentClass)

GitUrlSuspiciousPatterns ==
    << <<";">>, <<"&">>, <<"|">>, <<BackTick>>, <<"$">>, <<"(">>, <<")">>,
       <<"<">>, <<">">>, <<"\n">>, <<"\r">>, <<"\t">>, <<".",".">>, <<"\\">>,
       <<"r","m"," ">>, <<"c","u","r","l"," ">>, <<"w","g","e","t"," ">>,
       <<"n","c"," ">>, <<"b","a","s","h"," ">>, <<"s","h"," ">>,
       <<"e","x","e","c">>, <<"e","v","a","l">>,
       <<"s","y","s","t","e","m">> >>

\* the variant of lines 102-115: only startsWith / endsWith are checked
validateGitUrl_PrefixSuffixOnly(url) ==
    IF Falsy(url) \/ url.t # "string"
    THEN Throw("Git URL is required and must be a string")
    ELSE LET cleanUrl == Trim(url.s)
         IN  IF ~StartsWith(cleanUrl, HttpsGithub) \/ ~EndsWith(cleanUrl, DotGit)
             THEN Throw("Invalid git URL format")
             ELSE Ok(cleanUrl)

\* validateGitUrl after the type check and the trim (lines 159-185)
GitUrlChecks(cleanUrl) ==
    IF ~GithubHttpsRegex(cleanUrl)
    THEN Throw("Invalid git URL format")
    ELSE LET k == FirstPattern(GitUrlSuspiciousPatterns, cleanUrl)
         IN  IF k # 0
             THEN ThrowPattern("Git URL contains suspicious pattern",
                               GitUrlSuspiciousPatterns[k])
             ELSE IF Includes(cleanUrl, <<"/","/","/">>)
                  THEN ThrowPattern("Git URL contains suspicious pattern",
                                    <<"/","/","/">>)
                  ELSE Ok(cleanUrl)

\* returns url where the code returns cleanUrl
validateGitUrl_ReturnsRaw(url) ==
    IF Falsy(url) \/ url.t # "string"
    THEN Throw("Git URL is required and must be a string")
    ELSE LET r == GitUrlChecks(Trim(url.s))
         IN  IF r.ok THEN Ok(url.s) ELSE r

validateGitUrl(url) ==
    IF Falsy(url) \/ url.t # "string"
    THEN Throw("Git URL is required and must be a string")
    ELSE GitUrlChecks(Trim(url.s))

\* [\w\-\.\/]
BranchClass == WordChars \cup {"-", ".", "/"}

\* /^[\w\-\.\/]+$/
ValidBranchRegex(s) == s # <<>> /\ AllIn(s, BranchClass)

BranchSuspiciousPatterns ==
    << <<";">>, <<"&">>, <<"|">>, <<BackTick>>, <<"$">>, <<"(">>, <<")">>,
       <<"<">>, <<">">>, <<"\n">>, <<"\r">>, <<"\t">>, <<" ">>, <<"\\">>,
       <<"r","m"," ">>, <<"c","u","r","l"," ">>, <<"w","g","e","t"," ">>,
       <<"n","c"," ">>, <<"b","a","s","h"," ">>, <<"s","h"," ">>,
       <<"e","x","e","c">>, <<"e","v","a","l">>,
       <<"s","y","s","t","e","m">> >>

\* the checks without the path traversal test of lines 226-229
BranchChecks_NoTraversal(cleanBranch) ==
    IF Len(cleanBranch) = 0
    THEN Throw("Branch name cannot be empty")
    ELSE IF ~ValidBranchRegex(cleanBranch)
    THEN Throw("Branch name contains invalid characters")
    ELSE LET k == FirstPattern(BranchSuspiciousPatterns, cleanBranch)
         IN  IF k # 0
             THEN ThrowPattern("Branch name contains suspicious pattern",
                               BranchSuspiciousPatterns[k])
             ELSE IF Includes(cleanBranch, <<"/","/">>)
             THEN ThrowPattern("Branch name contains suspicious pattern",
                               <<"/","/">>)
             ELSE Ok(cleanBranch)

\* validateBranchName after the type check and the trim (lines 200-236)
BranchChecks(cleanBranch) ==
    IF Len(cleanBranch) = 0
    THEN Throw("Branch name cannot be empty")
    ELSE IF ~ValidBranchRegex(cleanBranch)
    THEN Throw("Branch name contains invalid characters")
    ELSE LET k == FirstPattern(BranchSuspiciousPatterns, cleanBranch)
         IN  IF k # 0
             THEN ThrowPattern("Branch name contains suspicious pattern",
                               BranchSuspiciousPatterns[k])
             ELSE IF Includes(cleanBranch, <<".",".">>)
                     \/ StartsWith(cleanBranch, <<"/">>)
             THEN Throw("Branch name contains path traversal patterns")
             ELSE IF Includes(cleanBranch, <<"/","/">>)
             THEN ThrowPattern("Branch name contains suspicious pattern",
                               <<"/","/">>)
             ELSE Ok(cleanBranch)

\* returns branch where the code returns cleanBranch
validateBranchName_ReturnsRaw(branch) ==
    IF Falsy(branch) \/ branch.t # "string"
    THEN Throw("Branch name is required and must be a string")
    ELSE LET r == BranchChecks(Trim(branch.s))
         IN  IF r.ok THEN Ok(branch.s) ELSE r

validateBranchName(branch) ==
    IF Falsy(branch) \/ branch.t # "string"
    THEN Throw("Branch name is required and must be a string")
    ELSE BranchChecks(Trim(branch.s))

\* the segments of a path between its slashes
RECURSIVE SplitPath(_)
SplitPath(s) ==
    IF \E i \in 1..Len(s) : s[i] = "/"
    THEN LET i == CHOOSE k \in 1..Len(s) :
                    s[k] = "/" /\ \A j \in 1..(k - 1) : s[j] # "/"
         IN  <<SubSeq(s, 1, i - 1)>> \o SplitPath(SubSeq(s, i + 1, Len(s)))
    ELSE <<s>>

\* path normalisation: empty and "." segments are dropped, ".." pops
RECURSIVE NormalizeSegs(_, _)
NormalizeSegs(segs, acc) ==
    IF segs = <<>> THEN acc
    ELSE LET h == Head(segs)
         IN  IF h = <<>> \/ h = <<".">>
             THEN NormalizeSegs(Tail(segs), acc)
             ELSE IF h = <<".",".">>
             THEN NormalizeSegs(Tail(segs),
                                IF acc = <<>> THEN acc
                                ELSE SubSeq(acc, 1, Len(acc) - 1))
             ELSE NormalizeSegs(Tail(segs), Append(acc, h))

RECURSIVE JoinAbs(_)
JoinAbs(segs) ==
    IF segs = <<>> THEN <<>>
    ELSE <<"/">> \o Head(segs) \o JoinAbs(Tail(segs))

\* path.resolve(base, p) for an absolute base
PathResolve(base, p) ==
    LET full == IF StartsWith(p, <<"/">>) THEN p ELSE base \o <<"/">> \o p
        segs == NormalizeSegs(SplitPath(full), <<>>)
    IN  IF segs = <<>> THEN <<"/">> ELSE JoinAbs(segs)

\* validateFilePath without the test for '..'
validateFilePath_NoDotDot(filePath, allowedBasePath) ==
    IF Falsy(filePath) \/ filePath.t # "string"
    THEN Throw("File path is required and must be a string")
    ELSE LET cleanPath == Trim(filePath.s)
         IN  IF \/ Includes(cleanPath, <<"~">>)
                \/ StartsWith(cleanPath, <<"/">>)
             THEN Throw("File path contains path traversal patterns")
             ELSE LET resolvedPath == PathResolve(allowedBasePath, cleanPath)
                      normalizedBasePath == PathResolve(allowedBasePath, <<>>)
                  IN  IF ~StartsWith(resolvedPath, normalizedBasePath)
                      THEN Throw("File path is outside allowed directory")
                      ELSE Ok(resolvedPath)

validateFilePath(filePath, allowedBasePath) ==
    IF Falsy(filePath) \/ filePath.t # "string"
    THEN Throw("File path is required and must be a string")
    ELSE LET cleanPath == Trim(filePath.s)
         IN  IF \/ Includes(cleanPath, <<".",".">>)
                \/ Includes(cleanPath, <<"~">>)
                \/ StartsWith(cleanPath, <<"/">>)
             THEN Throw("File path contains path traversal patterns")
             ELSE LET resolvedPath == PathResolve(allowedBasePath, cleanPath)
                      normalizedBasePath == PathResolve(allowedBasePath, <<>>)
                  IN  IF ~StartsWith(resolvedPath, normalizedBasePath)
                      THEN Throw("File path is outside allowed directory")
                      ELSE Ok(resolvedPath)

EnvVarSuspiciousPatterns ==
    << <<"$","(">>, <<BackTick>>, <<"$","{">>, <<";">>, <<"&">>, <<"|">>,
       <<"<">>, <<">">>, <<"\n">>, <<"\r">>, <<"NUL">> >>

\* validateEnvVar returning the value trimmed, as the other validators do
validateEnvVar_Trims(name, value) ==
    IF name = <<>>
    THEN Throw("Environment variable name is required")
    ELSE IF value.t \in {"null", "undefined"}
    THEN Ok(value)
    ELSE IF value.t # "string"
    THEN Throw("Environment variable value must be a string")
    ELSE LET k == FirstPattern(EnvVarSuspiciousPatterns, value.s)
         IN  IF k # 0
             THEN ThrowNamed("Environment variable contains suspicious pattern",
                             name, EnvVarSuspiciousPatterns[k])
             ELSE Ok(Str(Trim(value.s)))

validateEnvVar(name, value) ==
    IF name = <<>>
    THEN Throw("Environment variable name is required")
    ELSE IF value.t \in {"null", "undefined"}
    THEN Ok(value)
    ELSE IF value.t # "string"
    THEN Throw("Environment variable value must be a string")
    ELSE LET k == FirstPattern(EnvVarSuspiciousPatterns, value.s)
         IN  IF k # 0
             THEN ThrowNamed("Environment variable contains suspicious pattern",
                             name, EnvVarSuspiciousPatterns[k])
             ELSE Ok(value)

\* a single quote escaped by a backslash alone
RECURSIVE EscapeQuotes_Backslash(_)
EscapeQuotes_Backslash(s) ==
    IF s = <<>> THEN <<>>
    ELSE (IF Head(s) = "'" THEN <<"\\", "'">> ELSE <<Head(s)>>)
         \o EscapeQuotes_Backslash(Tail(s))

\* `'${arg.replace(/'/g, "'\\''")}'`
RECURSIVE EscapeQuotes(_)
EscapeQuotes(s) ==
    IF s = <<>> THEN <<>>
    ELSE (IF Head(s) = "'" THEN <<"'", "\\", "'", "'">> ELSE <<Head(s)>>)
         \o EscapeQuotes(Tail(s))

escapeShellArg(arg) ==
    IF Falsy(arg) \/ arg.t # "string"
    THEN Throw("Shell argument must be a non-empty string")
    ELSE Ok(<<"'">> \o EscapeQuotes(arg.s) \o <<"'">>)

----------------------------------------------------------------------------
(* validateInputs, the identifier validation the unit tests call; its code *)
(* is not among the sources and is taken from the specification            *)

Digits == {"0","1","2","3","4","5","6","7","8","9"}

\* accepts a leading minus sign before the digits
validatePrNumber_AllowsSign(n) ==
    IF /\ n.t = "string" /\ n.s # <<>>
       /\ AllIn(IF Head(n.s) = "-" THEN Tail(n.s) ELSE n.s, Digits)
    THEN Ok(n.s)
    ELSE Throw("PR number must be numeric")

\* accepts only digit sequences
validatePrNumber(n) ==
    IF n.t = "string" /\ n.s # <<>> /\ AllIn(n.s, Digits)
    THEN Ok(n.s)
    ELSE Throw("PR number must be numeric")

\* accepts only [A-Za-z0-9_-]+
validateOrgOrRepoName(name) ==
    IF name.t = "string" /\ name.s # <<>> /\ AllIn(name.s, WordChars \cup {"-"})
    THEN Ok(name.s)
    ELSE Throw("Invalid organization or repository name")

validateInputs(org, repo, pr) ==
    IF Falsy(org) \/ Falsy(repo) \/ Falsy(pr)
    THEN Throw("Organization, repository, and PR number are required")
    ELSE IF ~validateOrgOrRepoName(org).ok THEN validateOrgOrRepoName(org)
    ELSE IF ~validateOrgOrRepoName(repo).ok THEN validateOrgOrRepoName(repo)
    ELSE validatePrNumber(pr)

----------------------------------------------------------------------------
(* index.js: parameters                                                    *)

NoErr == [msg |-> "", detail |-> <<>>]
Error(m, d) == [msg |-> m, detail |-> d]

\* process.cwd() when the process starts
OrigCwdPath == <<"/","w">>

ValidUrl == HttpsGithub \o <<"a","/","b">> \o DotGit
\* has the shape of the regular expression and holds the pattern ".."
BadUrl == HttpsGithub \o <<"a","/",".",".">> \o DotGit
Main == <<"m","a","i","n">>
Feature == <<"f","/","x">>
BadBranch == <<"m",";","x">>
DiffPath == <<"d",".","t">>
BadPath == <<".",".","/","d">>
OutPath == <<"o",".","j">>
\* an organization name the identifier validation does not allow
OrgWithSpace == <<"o"," ","g">>
\* an output file name without an extension
OutNoExt == <<"o">>
BadOut == <<"~","/","o">>

\* this.params after the constructor
EmptyParams ==
    [orgName |-> JSNull, repoName |-> JSNull, prNumber |-> JSNull,
     gitUrl |-> JSNull, baseBranch |-> JSNull, headBranch |-> JSNull,
     outputFormat |-> JSNull, outputFile |-> JSNull, llmApiKey |-> JSNull,
     llmEndpoint |-> JSNull, diffFile |-> JSNull, useStdin |-> FALSE]

\* what parseParameters can build from the command line and the environment:
\* baseBranch, outputFormat and outputFile have defaults and are never missing
ParamProduct ==
    [orgName : {JSNull, Str(<<"o">>)},
     repoName : {JSNull, Str(<<"r">>)},
     prNumber : {JSNull, Str(<<"7">>)},
     gitUrl : {JSNull, Str(ValidUrl), Str(BadUrl)},
     baseBranch : {Str(Main), Str(BadBranch)},
     headBranch : {JSNull, Str(Main), Str(Feature), Str(BadBranch)},
     outputFormat : {Str(<<"j","s","o","n">>)},
     outputFile : {Str(OutPath), Str(OutNoExt), Str(BadOut)},
     llmApiKey : {JSNull, Str(<<"k">>), Str(<<"k",";">>)},
     llmEndpoint : {JSNull, Str(<<"e">>)},
     diffFile : {JSNull, Str(DiffPath), Str(BadPath)},
     useStdin : BOOLEAN]

\* a command line with a diff file and an organization name with a space
OrgWithSpaceParams ==
    [orgName |-> Str(OrgWithSpace), repoName |-> Str(<<"r">>),
     prNumber |-> Str(<<"7">>), gitUrl |-> JSNull, baseBranch |-> Str(Main),
     headBranch |-> JSNull, outputFormat |-> Str(<<"j","s","o","n">>),
     outputFile |-> Str(OutPath), llmApiKey |-> Str(<<"k">>),
     llmEndpoint |-> Str(<<"e">>), diffFile |-> Str(DiffPath),
     useStdin |-> FALSE]

\* ORG_NAME set to the empty string in the environment, no PR number, stdin
EmptyOrgParams ==
    [orgName |-> Str(<<>>), repoName |-> Str(<<"r">>), prNumber |-> JSNull,
     gitUrl |-> JSNull, baseBranch |-> Str(Main), headBranch |-> JSNull,
     outputFormat |-> Str(<<"j","s","o","n">>), outputFile |-> Str(OutPath),
     llmApiKey |-> Str(<<"k">>), llmEndpoint |-> Str(<<"e">>),
     diffFile |-> JSNull, useStdin |-> TRUE]

\* an output file without an extension in a directory with a dot in its name
OutDottedDir == <<"a",".","b","/","o">>

\* a command line with a diff file and that output file
DottedDirParams ==
    [orgName |-> Str(<<"o">>), repoName |-> Str(<<"r">>),
     prNumber |-> Str(<<"7">>), gitUrl |-> JSNull, baseBranch |-> Str(Main),
     headBranch |-> JSNull, outputFormat |-> Str(<<"j","s","o","n">>),
     outputFile |-> Str(OutDottedDir), llmApiKey |-> Str(<<"k">>),
     llmEndpoint |-> Str(<<"e">>), diffFile |-> Str(DiffPath),
     useStdin |-> FALSE]

\* branch names that begin with a hyphen
DashBase == <<"-","x">>
DashHead == <<"-","y">>

\* a command line with a git URL and those branches
DashBranchParams ==
    [orgName |-> Str(<<"o">>), repoName |-> Str(<<"r">>),
     prNumber |-> Str(<<"7">>), gitUrl |-> Str(ValidUrl),
     baseBranch |-> Str(DashBase), headBranch |-> Str(DashHead),
     outputFormat |-> Str(<<"j","s","o","n">>), outputFile |-> Str(OutPath),
     llmApiKey |-> Str(<<"k">>), llmEndpoint |-> Str(<<"e">>),
     diffFile |-> JSNull, useStdin |-> FALSE]

ParamSpace ==
    ParamProduct \cup { OrgWithSpaceParams, EmptyOrgParams, DottedDirParams,
                        DashBranchParams }

RequiredParams == <<"orgName", "repoName", "prNumber", "llmApiKey", "llmEndpoint">>

Passed(p) == [ok |-> TRUE, params |-> p, error |-> NoErr]
Rejected(p, m, d) == [ok |-> FALSE, params |-> p, error |-> Error(m, d)]

\* lines 136-142
ValidateEnvVars(p) ==
    LET k == validateEnvVar(<<"LLM_API_KEY">>, p.llmApiKey)
        e == validateEnvVar(<<"LLM_ENDPOINT">>, p.llmEndpoint)
    IN  IF ~k.ok THEN Rejected(p, k.error, k.pattern)
        ELSE IF ~e.ok THEN Rejected(p, e.error, e.pattern)
        ELSE Passed(p)

\* lines 127-134
ValidateOutputFile(p) ==
    IF Falsy(p.outputFile) THEN ValidateEnvVars(p)
    ELSE LET r == validateFilePath(p.outputFile, OrigCwdPath)
         IN  IF r.ok THEN ValidateEnvVars([p EXCEPT !.outputFile = Str(r.value)])
             ELSE Rejected(p, "Invalid output file path", <<>>)

\* lines 118-125
ValidateDiffFile(p) ==
    IF Falsy(p.diffFile) THEN ValidateOutputFile(p)
    ELSE LET r == validateFilePath(p.diffFile, OrigCwdPath)
         IN  IF r.ok THEN ValidateOutputFile([p EXCEPT !.diffFile = Str(r.value)])
             ELSE Rejected(p, "Invalid diff file path", <<>>)

\* lines 110-116
ValidateHeadBranch(p) ==
    IF Falsy(p.headBranch) THEN ValidateDiffFile(p)
    ELSE LET r == validateBranchName(p.headBranch)
         IN  IF r.ok THEN ValidateDiffFile([p EXCEPT !.headBranch = Str(r.value)])
             ELSE Rejected(p, "Invalid head branch name", r.pattern)

\* lines 101-108
ValidateBaseBranch(p) ==
    IF Falsy(p.baseBranch) THEN ValidateHeadBranch(p)
    ELSE LET r == validateBranchName(p.baseBranch)
         IN  IF r.ok THEN ValidateHeadBranch([p EXCEPT !.baseBranch = Str(r.value)])
             ELSE Rejected(p, "Invalid base branch name", r.pattern)

\* lines 92-99
ValidateGitUrlParam(p) ==
    IF Falsy(p.gitUrl) THEN ValidateBaseBranch(p)
    ELSE LET r == validateGitUrl(p.gitUrl)
         IN  IF r.ok THEN ValidateBaseBranch([p EXCEPT !.gitUrl = Str(r.value)])
             ELSE Rejected(p, "Invalid git URL", r.pattern)

\* validateParameters without the test of hasDiffSource
validateParameters_NoSourceCheck(p) ==
    LET missing == SelectSeq(RequiredParams, LAMBDA f : Falsy(p[f]))
    IN  IF missing # <<>>
        THEN Rejected(p, "Missing required parameters", missing)
        ELSE ValidateGitUrlParam(p)

\* validateParameters: the outcome and this.params as the checks leave it
validateParameters(p) ==
    LET missing == SelectSeq(RequiredParams, LAMBDA f : Falsy(p[f]))
        hasDiffSource == ~Falsy(p.gitUrl) \/ ~Falsy(p.diffFile) \/ p.useStdin
    IN  IF missing # <<>>
        THEN Rejected(p, "Missing required parameters", missing)
        ELSE IF ~hasDiffSource
        THEN Rejected(p, "Must provide either GIT_URL, --diff-file, or --stdin", <<>>)
        ELSE ValidateGitUrlParam(p)

\* the precedence of getDiffData with the git clone tried first
DiffSource_GitFirst(p) ==
    IF ~Falsy(p.gitUrl) THEN "git"
    ELSE IF ~Falsy(p.diffFile) THEN "file"
    ELSE IF p.useStdin THEN "stdin"
    ELSE "none"

\* the branch getDiffData takes
DiffSource(p) ==
    IF p.useStdin THEN "stdin"
    ELSE IF ~Falsy(p.diffFile) THEN "file"
    ELSE IF ~Falsy(p.gitUrl) THEN "git"
    ELSE "none"

----------------------------------------------------------------------------
(* index.js: the run                                                       *)

\* what a 'data' event of stdin can carry
ChunkValues == { <<" ">>, <<"a","\n">> }

\* what the diff file or git diff can hold: nothing, white space, a change
DiffTexts == { <<>>, <<" ","\n">>, <<"a">> }

NoDiff == [have |-> FALSE, text |-> <<>>]

\* a result of reviewChanges: comments is the list of the comments, each TRUE
\* when it has a body; hasComments and hasHunks tell whether the fields
\* comments and metadata.totalHunks are there at all
NoResults ==
    [summary |-> "", hasComments |-> FALSE, comments |-> <<>>,
     hasHunks |-> FALSE, totalHunks |-> 0]

NoChangesResults ==
    [summary |-> "No changes found", hasComments |-> TRUE, comments |-> <<>>,
     hasHunks |-> FALSE, totalHunks |-> 0]

Reviewed(hc, c, hh) ==
    [summary |-> "review", hasComments |-> hc, comments |-> c,
     hasHunks |-> hh, totalHunks |-> IF hh THEN 1 ELSE 0]

\* the comment lists of up to MaxComments comments, with or without a body
CommentLists == UNION { [1..n -> BOOLEAN] : n \in 0..MaxComments }

ReviewResults ==
    { Reviewed(TRUE, c, hh) : c \in CommentLists, hh \in BOOLEAN }
    \cup { Reviewed(FALSE, <<>>, hh) : hh \in BOOLEAN }

StdinIdle ==
    [listening |-> FALSE, data |-> <<>>, received |-> <<>>, ended |-> FALSE,
     errored |-> FALSE, timerFired |-> FALSE, state |-> "pending",
     value |-> <<>>, reason |-> ""]

NoBody == [summary |-> "", totalComments |-> 0, totalHunks |-> 0, hasIssues |-> FALSE]
Event(op, arg) == [op |-> op, arg |-> arg, body |-> NoBody]
FileEvent(op, path, body) == [op |-> op, arg |-> path, body |-> body]

\* String.prototype.replace(/\.[^.]+$/, ext): the last dot and what follows
\* it, when at least one character follows it; no match leaves s as it is
ReplaceExt(s, ext) ==
    IF \E i \in 1..(Len(s) - 1) : s[i] = "." /\ \A j \in (i + 1)..Len(s) : s[j] # "."
    THEN LET i == CHOOSE k \in 1..(Len(s) - 1) :
                    s[k] = "." /\ \A j \in (k + 1)..Len(s) : s[j] # "."
         IN  SubSeq(s, 1, i - 1) \o ext
    ELSE s

MetadataExt == <<".","m","e","t","a","d","a","t","a",".","j","s","o","n">>
ErrorExt == <<".","e","r","r","o","r",".","j","s","o","n">>

\* the name createSecureTempDir returns
TmpDirPath == <<"/","t","m","p","/","r">>

GitCloneWord == <<"g","i","t"," ","c","l","o","n","e"," ">>
GitFetchWord == <<"g","i","t"," ","f","e","t","c","h"," ","o","r","i","g","i","n"," ">>
GitDiffWord == <<"g","i","t"," ","d","i","f","f"," ">>
RmWord == <<"r","m"," ","-","r","f"," ">>
HeadWord == <<"H","E","A","D">>

\* the two invocations of the adapter that share the host
Invocations == 1..2

\* an invocation before its getDiffFromGit is called
InvIdle ==
    [i \in Invocations |->
        [pc |-> "idle", variant |-> "secure", stamp |-> 0, suffix |-> 0,
         touched |-> FALSE]]

\* the directory name made of a timestamp and a suffix (0: no suffix)
TmpName(stamp, suffix) == <<stamp, suffix>>
TmpNames == { TmpName(t, r) : t \in 1..MaxClock, r \in 0..MaxRand }

\* the host at the first millisecond, with no temporary directory (owner 0)
HostIdle == [clock |-> 1, owner |-> [n \in TmpNames |-> 0]]

\* the retry policy of the API path: the maximum attempt count and the base
\* delay (in units of the base delay)
MaxAttempts == 3
BaseDelay == 1

\* no request of the API path made yet
ApiIdle ==
    [state |-> "idle", attempts |-> 0, delay |-> BaseDelay, outcomes |-> <<>>,
     waits |-> <<>>, error |-> "", rateWait |-> FALSE]

\* nothing to publish yet
PubIdle ==
    [state |-> "idle", enabled |-> FALSE, comments |-> <<>>, next |-> 1,
     sha |-> 0, calls |-> <<>>, written |-> FALSE, exitCode |-> "none"]

Init ==
    /\ pc = "start"
    /\ params = EmptyParams
    /\ err = NoErr
    /\ log = <<>>
    /\ diff = NoDiff
    /\ results = NoResults
    /\ exitCode = "none"
    /\ envSet = FALSE
    /\ cwd = "orig"
    /\ tmpDirExists = FALSE
    /\ cleanupFailed = FALSE
    /\ stdin = StdinIdle
    /\ caller = "none"
    /\ secIn = JSNull
    /\ secOut = [fn |-> "none", arg |-> <<>>, ok |-> FALSE, value |-> <<>>,
                 error |-> "", pattern |-> <<>>, name |-> <<>>]
    /\ inv = InvIdle
    /\ host = HostIdle
    /\ api = ApiIdle
    /\ pub = PubIdle

\* run(), line 152
ParseParameters ==
    /\ pc = "start"
    /\ \E p \in ParamSpace : params' = p
    /\ pc' = "parsed"
    /\ caller' = "run"
    /\ UNCHANGED <<err, log, diff, results, exitCode, envSet, cwd,
                   tmpDirExists, cleanupFailed, stdin, otherVars>>

\* the params object the integration tests assign before they call a method
\* of the adapter on its own: nothing has validated it
DirectParams ==
    { p \in ParamProduct :
        /\ p.orgName = Str(<<"o">>) /\ p.repoName = Str(<<"r">>)
        /\ p.prNumber = Str(<<"7">>) /\ p.llmApiKey = Str(<<"k">>)
        /\ p.llmEndpoint = Str(<<"e">>) /\ p.outputFile = Str(OutPath)
        /\ p.baseBranch = Str(Main) /\ p.headBranch \in {JSNull, Str(Feature)}
        /\ p.gitUrl # Str(BadUrl) /\ p.diffFile # Str(BadPath) }

\* beforeEach of the integration tests: adapter.params = {...}, after which
\* the test calls getDiffData without run()
AssignParams ==
    /\ pc = "start"
    /\ \E p \in DirectParams : params' = p
    /\ pc' = "getdiff"
    /\ caller' = "direct"
    /\ UNCHANGED <<err, log, diff, results, exitCode, envSet, cwd,
                   tmpDirExists, cleanupFailed, stdin, otherVars>>

\* a run that sets up the LLM environment before it validates
ValidateParameters_EnvFirst ==
    /\ pc = "parsed"
    /\ LET r == validateParameters(params)
       IN  /\ params' = r.params
           /\ err' = r.error
           /\ pc' = IF r.ok THEN "validated" ELSE "catch"
    /\ envSet' = (~Falsy(params.llmApiKey) \/ ~Falsy(params.llmEndpoint))
    /\ log' = Append(log, Event("env", <<>>))
    /\ UNCHANGED <<diff, results, exitCode, cwd, tmpDirExists,
                   cleanupFailed, stdin, caller,
                   otherVars>>

\* run(), line 153
ValidateParameters ==
    /\ pc = "parsed"
    /\ LET r == validateParameters(params)
       IN  /\ params' = r.params
           /\ err' = r.error
           /\ pc' = IF r.ok THEN "validated" ELSE "catch"
    /\ UNCHANGED <<log, diff, results, exitCode, envSet, cwd, tmpDirExists,
                   cleanupFailed, stdin, caller,
                   otherVars>>

\* run(), line 154
SetupLLMEnvironment ==
    /\ pc = "validated"
    /\ envSet' = (~Falsy(params.llmApiKey) \/ ~Falsy(params.llmEndpoint))
    /\ log' = Append(log, Event("env", <<>>))
    /\ pc' = "getdiff"
    /\ UNCHANGED <<params, err, diff, results, exitCode, cwd, tmpDirExists,
                   cleanupFailed, stdin, caller,
                   otherVars>>

\* getDiffData; getDiffFromStdin attaches its listeners and starts its timer
\* in the same call
GetDiffData ==
    /\ pc = "getdiff"
    /\ LET src == DiffSource(params)
       IN  /\ pc' = CASE src = "stdin" -> "await_stdin"
                      [] src = "file" -> "file"
                      [] src = "git" -> "git_clone"
                      [] OTHER -> "catch"
           /\ stdin' = IF src = "stdin"
                       THEN [stdin EXCEPT !.listening = TRUE]
                       ELSE stdin
           /\ log' = IF src = "stdin"
                     THEN log \o << Event("getDiffData", <<>>),
                                    Event("stdin.listen", <<>>) >>
                     ELSE Append(log, Event("getDiffData", <<>>))
           /\ err' = IF src = "none"
                     THEN Error("No valid diff data source", <<>>)
                     ELSE err
    /\ UNCHANGED <<params, diff, results, exitCode, envSet, cwd, tmpDirExists,
                   cleanupFailed, caller,
                   otherVars>>

\* getDiffFromFile
GetDiffFromFile ==
    /\ pc = "file"
    /\ \E exists \in BOOLEAN, text \in DiffTexts :
        IF exists
        THEN /\ log' = log \o << Event("file.exists", params.diffFile.s),
                                 Event("file.read", params.diffFile.s) >>
             /\ diff' = [have |-> TRUE, text |-> text]
             /\ err' = err
             /\ pc' = "gotdiff"
        ELSE /\ log' = Append(log, Event("file.exists", params.diffFile.s))
             /\ diff' = diff
             /\ err' = Error("Diff file not found", params.diffFile.s)
             /\ pc' = "catch"
    /\ UNCHANGED <<params, results, exitCode, envSet, cwd, tmpDirExists,
                   cleanupFailed, stdin, caller,
                   otherVars>>

\* the error thrown inside the try block of getDiffFromGit is kept in err
\* until the catch block wraps it
GitFail(inner) ==
    /\ err' = Error(inner, <<>>)
    /\ pc' = "git_catch"

\* getDiffFromGit, lines 245-246: git clone <url> <tmpDir>
GitClone ==
    /\ pc = "git_clone"
    /\ LET u == escapeShellArg(params.gitUrl)
           d == escapeShellArg(Str(TmpDirPath))
       IN  IF ~u.ok
           THEN /\ GitFail(u.error)
                /\ UNCHANGED <<log, tmpDirExists>>
           ELSE /\ log' = Append(log, Event("exec",
                                GitCloneWord \o u.value \o <<" ">> \o d.value))
                /\ \E ok \in BOOLEAN :
                     IF ok
                     THEN /\ tmpDirExists' = TRUE
                          /\ pc' = "git_chdir"
                          /\ err' = err
                     ELSE \* a failed clone may leave a partial directory
                          /\ tmpDirExists' \in BOOLEAN
                          /\ GitFail("clone failed")
    /\ UNCHANGED <<params, diff, results, exitCode, envSet, cwd,
                   cleanupFailed, stdin, caller,
                   otherVars>>

\* lines 248-253: process.chdir(tmpDir), then the fetch of the head branch
GitFetch ==
    /\ pc = "git_chdir"
    /\ cwd' = "tmp"
    /\ IF ~Falsy(params.headBranch) /\ params.headBranch # params.baseBranch
       THEN LET h == escapeShellArg(params.headBranch)
            IN  /\ log' = log \o << Event("chdir.tmp", <<>>),
                                    Event("exec", GitFetchWord \o h.value
                                                  \o <<":">> \o h.value) >>
                /\ \E ok \in BOOLEAN :
                     IF ok
                     THEN pc' = "git_diff" /\ err' = err
                     ELSE GitFail("fetch failed")
       ELSE /\ log' = Append(log, Event("chdir.tmp", <<>>))
            /\ pc' = "git_diff"
            /\ err' = err
    /\ UNCHANGED <<params, diff, results, exitCode, envSet, tmpDirExists,
                   cleanupFailed, stdin, caller,
                   otherVars>>

\* git diff with the two-dot range <base>..<head>
GitDiff_TwoDot ==
    /\ pc = "git_diff"
    /\ LET b == escapeShellArg(params.baseBranch)
           h == IF ~Falsy(params.headBranch)
                THEN escapeShellArg(params.headBranch).value
                ELSE HeadWord
       IN  IF ~b.ok
           THEN /\ GitFail(b.error)
                /\ UNCHANGED <<log, diff>>
           ELSE /\ log' = Append(log, Event("exec",
                                GitDiffWord \o b.value \o <<".",".">> \o h))
                /\ \E ok \in BOOLEAN, text \in DiffTexts :
                     IF ok
                     THEN /\ diff' = [have |-> FALSE, text |-> text]
                          /\ pc' = "git_chdir_back"
                          /\ err' = err
                     ELSE /\ diff' = diff
                          /\ GitFail("diff failed")
    /\ UNCHANGED <<params, results, exitCode, envSet, cwd, tmpDirExists,
                   cleanupFailed, stdin, caller,
                   otherVars>>

\* lines 255-262: git diff <base>...<head or HEAD>
GitDiff ==
    /\ pc = "git_diff"
    /\ LET b == escapeShellArg(params.baseBranch)
           h == IF ~Falsy(params.headBranch)
                THEN escapeShellArg(params.headBranch).value
                ELSE HeadWord
       IN  IF ~b.ok
           THEN /\ GitFail(b.error)
                /\ UNCHANGED <<log, diff>>
           ELSE /\ log' = Append(log, Event("exec",
                                GitDiffWord \o b.value \o <<".",".",".">> \o h))
                /\ \E ok \in BOOLEAN, text \in DiffTexts :
                     IF ok
                     THEN /\ diff' = [have |-> FALSE, text |-> text]
                          /\ pc' = "git_chdir_back"
                          /\ err' = err
                     ELSE /\ diff' = diff
                          /\ GitFail("diff failed")
    /\ UNCHANGED <<params, results, exitCode, envSet, cwd, tmpDirExists,
                   cleanupFailed, stdin, caller,
                   otherVars>>

\* line 265: process.chdir(originalCwd)
GitChdirBack ==
    /\ pc = "git_chdir_back"
    /\ \E ok \in BOOLEAN :
         IF ok
         THEN /\ cwd' = "orig"
              /\ log' = Append(log, Event("chdir.orig", <<>>))
              /\ pc' = "git_rm"
              /\ err' = err
         ELSE /\ GitFail("chdir failed")
              /\ UNCHANGED <<cwd, log>>
    /\ UNCHANGED <<params, diff, results, exitCode, envSet, tmpDirExists,
                   cleanupFailed, stdin, caller,
                   otherVars>>

\* lines 266-268: rm -rf <tmpDir>, then return diffData
GitRm ==
    /\ pc = "git_rm"
    /\ \E ok \in BOOLEAN :
         IF ok
         THEN /\ tmpDirExists' = FALSE
              /\ log' = log \o << Event("exec", RmWord
                                        \o escapeShellArg(Str(TmpDirPath)).value),
                                  Event("git.return", <<>>) >>
              /\ diff' = [diff EXCEPT !.have = TRUE]
              /\ pc' = "gotdiff"
              /\ err' = err
         ELSE /\ log' = Append(log, Event("exec", RmWord
                                    \o escapeShellArg(Str(TmpDirPath)).value))
              /\ GitFail("rm failed")
              /\ UNCHANGED <<tmpDirExists, diff>>
    /\ UNCHANGED <<params, results, exitCode, envSet, cwd, cleanupFailed,
                   stdin, caller,
                   otherVars>>

\* the catch block removing the directory without the chdir back
GitCatch_NoChdir ==
    /\ pc = "git_catch"
    /\ \E rmOk \in BOOLEAN :
         /\ tmpDirExists' = IF rmOk THEN FALSE ELSE tmpDirExists
         /\ cleanupFailed' = ~rmOk
         /\ log' = log
                   \o << Event("exec", RmWord
                                \o escapeShellArg(Str(TmpDirPath)).value) >>
                   \o (IF rmOk THEN <<>> ELSE << Event("warn.cleanup", <<>>) >>)
                   \o << Event("git.throw", <<>>) >>
    /\ err' = Error("Git diff failed", <<err.msg>>)
    /\ pc' = "catch"
    /\ UNCHANGED <<params, diff, results, exitCode, envSet, cwd, stdin,
                   caller,
                   otherVars>>

\* the catch block without its rm -rf
GitCatch_NoRm ==
    /\ pc = "git_catch"
    /\ cwd' = "orig"
    /\ log' = log \o << Event("chdir.orig", <<>>), Event("git.throw", <<>>) >>
    /\ err' = Error("Git diff failed", <<err.msg>>)
    /\ pc' = "catch"
    /\ UNCHANGED <<params, diff, results, exitCode, envSet, tmpDirExists,
                   cleanupFailed, stdin, caller,
                   otherVars>>

\* lines 270-280: the catch block: chdir back and rm -rf in a try of their
\* own, whose failure is only warned about, then throw 'Git diff failed: ...'
GitCatch ==
    /\ pc = "git_catch"
    /\ \E chdirOk \in BOOLEAN, rmOk \in BOOLEAN :
         /\ cwd' = IF chdirOk THEN "orig" ELSE cwd
         /\ tmpDirExists' = IF chdirOk /\ rmOk THEN FALSE ELSE tmpDirExists
         /\ cleanupFailed' = ~(chdirOk /\ rmOk)
         /\ log' = log
                   \o (IF chdirOk
                       THEN << Event("chdir.orig", <<>>),
                               Event("exec", RmWord
                                     \o escapeShellArg(Str(TmpDirPath)).value) >>
                       ELSE <<>>)
                   \o (IF chdirOk /\ rmOk THEN <<>>
                       ELSE << Event("warn.cleanup", <<>>) >>)
                   \o << Event("git.throw", <<>>) >>
    /\ err' = Error("Git diff failed", <<err.msg>>)
    /\ pc' = "catch"
    /\ UNCHANGED <<params, diff, results, exitCode, envSet, stdin, caller,
                   otherVars>>

\* run() is suspended (at an await, or returned with the process still
\* alive): the only times an event handler of stdin or the timer can run
Suspended ==
    /\ exitCode = "none"
    /\ pc \in {"await_stdin", "await_review", "returned"}

\* a resolve that takes effect on a promise that has settled already
Resolve_Overwrites(st, v) == [st EXCEPT !.state = "resolved", !.value = v]

\* a settled promise ignores every later resolve and reject
Resolve(st, v) ==
    IF st.state = "pending" THEN [st EXCEPT !.state = "resolved", !.value = v]
    ELSE st

Reject(st, reason) ==
    IF st.state = "pending" THEN [st EXCEPT !.state = "rejected", !.reason = reason]
    ELSE st

\* the 'data' listener with the operands of += swapped
OnData_Prepend(st, chunk) ==
    [st EXCEPT !.data = chunk \o @, !.received = Append(@, chunk)]

\* line 292: data += chunk (received is the history of the chunks)
OnData(st, chunk) ==
    [st EXCEPT !.data = @ \o chunk, !.received = Append(@, chunk)]

\* the timer callback resolving with what was read so far
OnTimeout_ResolvesData(st) == Resolve([st EXCEPT !.timerFired = TRUE], st.data)

\* line 296: the callback of setTimeout(..., 30000)
OnTimeout(st) ==
    Reject([st EXCEPT !.timerFired = TRUE], "Timeout reading from stdin")

StdinData ==
    /\ Suspended
    /\ stdin.listening /\ ~stdin.ended /\ ~stdin.errored
    /\ Len(stdin.received) < MaxChunks
    /\ \E chunk \in ChunkValues : stdin' = OnData(stdin, chunk)
    /\ UNCHANGED <<pc, params, err, log, diff, results, exitCode, envSet, cwd,
                   tmpDirExists, cleanupFailed, caller,
                   otherVars>>

\* line 293: 'end' resolves with data
StdinEnd ==
    /\ Suspended
    /\ stdin.listening /\ ~stdin.ended /\ ~stdin.errored
    /\ stdin' = Resolve([stdin EXCEPT !.ended = TRUE], stdin.data)
    /\ UNCHANGED <<pc, params, err, log, diff, results, exitCode, envSet, cwd,
                   tmpDirExists, cleanupFailed, caller,
                   otherVars>>

\* line 294: 'error' rejects with the error of the stream
StdinError ==
    /\ Suspended
    /\ stdin.listening /\ ~stdin.errored
    /\ stdin' = Reject([stdin EXCEPT !.errored = TRUE], "Stdin error")
    /\ UNCHANGED <<pc, params, err, log, diff, results, exitCode, envSet, cwd,
                   tmpDirExists, cleanupFailed, caller,
                   otherVars>>

StdinTimeout ==
    /\ Suspended
    /\ stdin.listening /\ ~stdin.timerFired
    /\ stdin' = OnTimeout(stdin)
    /\ UNCHANGED <<pc, params, err, log, diff, results, exitCode, envSet, cwd,
                   tmpDirExists, cleanupFailed, caller,
                   otherVars>>

\* run(), line 156: await this.getDiffData() on the stdin path
AwaitStdin ==
    /\ pc = "await_stdin"
    /\ stdin.state # "pending"
    /\ IF stdin.state = "resolved"
       THEN /\ diff' = [have |-> TRUE, text |-> stdin.value]
            /\ pc' = "gotdiff"
            /\ err' = err
       ELSE /\ diff' = diff
            /\ pc' = "catch"
            /\ err' = Error(stdin.reason, <<>>)
    /\ UNCHANGED <<params, log, results, exitCode, envSet, cwd, tmpDirExists,
                   cleanupFailed, stdin, caller,
                   otherVars>>

\* the test of line 158 without the trim
EmptyDiff_NoTrim(text) == text = <<>>

\* !diffData || diffData.trim().length === 0
EmptyDiff(text) == text = <<>> \/ Len(Trim(text)) = 0

\* a run that hands every diff, empty or not, to reviewer.reviewChanges
CheckDiff_ReviewsEmpty ==
    /\ pc = "gotdiff"
    /\ caller = "run"
    /\ results' = results
    /\ pc' = "await_review"
    /\ log' = Append(log, Event("review", diff.text))
    /\ UNCHANGED <<params, err, diff, exitCode, envSet, cwd, tmpDirExists,
                   cleanupFailed, stdin, caller, otherVars>>

\* run(), lines 158-174: the empty diff goes to writeResults, any other to
\* reviewer.reviewChanges
CheckDiff ==
    /\ pc = "gotdiff"
    /\ caller = "run"
    /\ IF EmptyDiff(diff.text)
       THEN /\ results' = NoChangesResults
            /\ pc' = "write_nochanges"
            /\ log' = log
       ELSE /\ results' = results
            /\ pc' = "await_review"
            /\ log' = Append(log, Event("review", diff.text))
    /\ UNCHANGED <<params, err, diff, exitCode, envSet, cwd, tmpDirExists,
                   cleanupFailed, stdin, caller,
                   otherVars>>

\* reviewChanges settles; line 176 reads results.comments.length
ReviewSettles ==
    /\ pc = "await_review"
    /\ \/ /\ err' = Error("review failed", <<>>)
          /\ pc' = "catch"
          /\ results' = results
       \/ \E r \in ReviewResults :
            /\ results' = r
            /\ IF r.hasComments
               THEN pc' = "write" /\ err' = err
               ELSE pc' = "catch" /\ err' = Error("TypeError", <<>>)
    /\ UNCHANGED <<params, log, diff, exitCode, envSet, cwd, tmpDirExists,
                   cleanupFailed, stdin, caller,
                   otherVars>>

\* the summary block with hasIssues taken from the hunks
SummaryOf_IssuesFromHunks(r) ==
    [summary |-> "",
     totalComments |-> IF r.hasComments THEN Len(r.comments) ELSE 0,
     totalHunks |-> IF r.hasHunks THEN r.totalHunks ELSE 0,
     hasIssues |-> (IF r.hasHunks THEN r.totalHunks ELSE 0) > 0]

\* the summary block of the metadata file, lines 315-319
SummaryOf(r) ==
    [summary |-> "",
     totalComments |-> IF r.hasComments THEN Len(r.comments) ELSE 0,
     totalHunks |-> IF r.hasHunks THEN r.totalHunks ELSE 0,
     hasIssues |-> (IF r.hasComments THEN Len(r.comments) ELSE 0) > 0]

\* what formatResults keeps of the results in the primary file
FormattedOf(r) ==
    [summary |-> r.summary,
     totalComments |-> IF r.hasComments THEN Len(r.comments) ELSE 0,
     totalHunks |-> IF r.hasHunks THEN r.totalHunks ELSE 0,
     hasIssues |-> FALSE]

\* writeResults: formatResults or the first write can throw before anything
\* is written, the write of the metadata file after the primary file is
WriteResults ==
    /\ pc \in {"write", "write_nochanges"}
    /\ LET outputPath == PathResolve(OrigCwdPath, params.outputFile.s)
           metadataPath == ReplaceExt(outputPath, MetadataExt)
           primary == FileEvent("write.result", outputPath, FormattedOf(results))
           meta == FileEvent("write.metadata", metadataPath, SummaryOf(results))
       IN  \E outcome \in {"ok", "first", "metadata"} :
             /\ log' = CASE outcome = "ok" -> log \o <<primary, meta>>
                         [] outcome = "metadata" -> Append(log, primary)
                         [] OTHER -> log
             /\ pc' = IF outcome # "ok" THEN "catch"
                      ELSE IF pc = "write_nochanges" THEN "returned"
                      ELSE "summary"
             /\ err' = IF outcome = "ok" THEN err
                       ELSE Error("write failed", <<>>)
    /\ UNCHANGED <<params, diff, results, exitCode, envSet, cwd, tmpDirExists,
                   cleanupFailed, stdin, caller,
                   otherVars>>

\* printSummary: comment.body.substring throws for a comment without a body
PrintSummary ==
    /\ pc = "summary"
    /\ IF \E i \in 1..Len(results.comments) : ~results.comments[i]
       THEN pc' = "catch" /\ err' = Error("TypeError", <<>>)
       ELSE pc' = "returned" /\ err' = err
    /\ UNCHANGED <<params, log, diff, results, exitCode, envSet, cwd,
                   tmpDirExists, cleanupFailed, stdin, caller,
                   otherVars>>

\* run(), lines 181-183: the catch block calls writeError
WriteError ==
    /\ pc = "catch"
    /\ caller = "run"
    /\ LET errorFile == ReplaceExt(params.outputFile.s, ErrorExt)
       IN  log' = Append(log, FileEvent("write.error", errorFile, NoBody))
    /\ pc' = "exit"
    /\ UNCHANGED <<params, err, diff, results, exitCode, envSet, cwd,
                   tmpDirExists, cleanupFailed, stdin, caller,
                   otherVars>>

\* run(), line 184: process.exit(1)
ProcessExit ==
    /\ pc = "exit"
    /\ exitCode' = "1"
    /\ log' = Append(log, Event("exit", <<>>))
    /\ pc' = "exited"
    /\ UNCHANGED <<params, err, diff, results, envSet, cwd, tmpDirExists,
                   cleanupFailed, stdin, caller,
                   otherVars>>

\* run() has returned and nothing keeps the event loop alive: the stdin
\* stream is over and its timer has fired
ProcessEnd ==
    /\ pc = "returned"
    /\ exitCode = "none"
    /\ stdin.listening => (stdin.timerFired /\ (stdin.ended \/ stdin.errored))
    /\ exitCode' = "0"
    /\ UNCHANGED <<pc, params, err, log, diff, results, envSet, cwd,
                   tmpDirExists, cleanupFailed, stdin, caller,
                   otherVars>>

Next ==
    \/ ParseParameters
    \/ AssignParams
    \/ ValidateParameters
    \/ SetupLLMEnvironment
    \/ GetDiffData
    \/ GetDiffFromFile
    \/ GitClone
    \/ GitFetch
    \/ GitDiff
    \/ GitChdirBack
    \/ GitRm
    \/ GitCatch
    \/ StdinData
    \/ StdinEnd
    \/ StdinError
    \/ StdinTimeout
    \/ AwaitStdin
    \/ CheckDiff
    \/ ReviewSettles
    \/ WriteResults
    \/ PrintSummary
    \/ WriteError
    \/ ProcessExit
    \/ ProcessEnd

Spec == Init /\ [][Next]_vars

\* the timer of line 296 fires once its 30 seconds are over
LiveSpec == Spec /\ WF_vars(StdinTimeout) /\ WF_vars(AwaitStdin)

----------------------------------------------------------------------------
(* The security functions called on their own                              *)

\* the denylist of shell metacharacters
DenyChars == {";", "&", "|", BackTick, "$", "(", ")", "<", ">", "\n", "\r", "\t"}

SegChars == {"a", ".", "/", ";"}

\* the strings over SegChars of at most n characters
RECURSIVE SeqsUpTo(_, _)
SeqsUpTo(chars, n) ==
    IF n = 0 THEN { <<>> }
    ELSE LET shorter == SeqsUpTo(chars, n - 1)
         IN  shorter \cup { Append(x, c) : x \in shorter, c \in chars }

Segs == SeqsUpTo(SegChars, MaxSegLen)

SshGithub == <<"g","i","t","@","g","i","t","h","u","b",".","c","o","m",":">>
HttpGithub == <<"h","t","t","p",":","/","/","g","i","t","h","u","b",".","c","o","m","/">>

\* s with the character c put in after its first i characters
Insert(s, i, c) == SubSeq(s, 1, i) \o <<c>> \o SubSeq(s, i + 1, Len(s))

ExecUrl == HttpsGithub \o <<"e","x","e","c","/","b">> \o DotGit
SshUrl == SshGithub \o <<"a","/","b">> \o DotGit

SecCores ==
    { HttpsGithub \o o \o <<"/">> \o r \o DotGit : o \in Segs, r \in Segs }
    \cup { pre \o <<"a","/","b">> \o suf :
            pre \in {SshGithub, HttpGithub, HttpsGithub},
            suf \in {DotGit, <<>>} }
    \cup UNION { { Insert(base, i, c) : i \in 0..Len(base), c \in DenyChars } :
                    base \in {ValidUrl, Main, Feature} }
    \cup { ExecUrl, Main, Feature, <<>>, <<" ">> }

SecPads == { <<>>, <<" ">>, <<"\n">> }

FeatureMyFix == <<"f","e","a","t","u","r","e","/","m","y","-","f","i","x">>
EtcPasswd ==
    <<".",".","/",".",".","/","e","t","c","/","p","a","s","s","w","d">>

\* branch names and relative paths, well formed and not
NameChars == {"a", "-", ".", "/", " ", "~"}
NameCores ==
    SeqsUpTo(NameChars, MaxNameLen) \cup { FeatureMyFix, EtcPasswd }

\* identifiers: PR numbers, organization and repository names
IdChars == {"0", "7", "a", "_", "-", "."}
IdCores ==
    SeqsUpTo(IdChars, MaxNameLen)
    \cup { <<"4","2">>, <<"9","9","9">>, <<"-","1","2","3">>,
           <<"1","2",".","3">>, <<"1","2","a">>, <<"a","b","c">>,
           <<"o","r","g","@","s">>, <<"o","r","g","$","p">>,
           <<"t","e","s","t","-","o","r","g","_","1","2","3">>,
           <<"A","d","o","b","e">> }

\* shell arguments with quotes, blanks, backslashes and metacharacters
ShellChars == {"a", "'", " ", "$", "\\"}
ShellCores == SeqsUpTo(ShellChars, MaxNameLen)

\* environment values with and without the patterns of validateEnvVar
EnvChars == {"a", "$", "(", "{", "NUL"}
EnvCores == SeqsUpTo(EnvChars, MaxNameLen)

SecInputs ==
    { JSNull, JSNumber, JSUndefined }
    \cup { Str(pre \o core \o suf) : pre \in {<<>>, <<" ">>}, suf \in SecPads,
                                     core \in SecCores \cup NameCores }
    \cup { Str(core) : core \in IdCores \cup EnvCores \cup ShellCores }

NotApplied ==
    [fn |-> "none", arg |-> <<>>, ok |-> FALSE, value |-> <<>>, error |-> "",
     pattern |-> <<>>, name |-> <<>>]

\* the outcome r of the call fn(secIn) or fn(secIn, arg)
AppliedTo(fn, arg, r) ==
    [fn |-> fn, arg |-> arg, ok |-> r.ok, value |-> r.value, error |-> r.error,
     pattern |-> r.pattern, name |-> r.name]

Applied(fn, r) == AppliedTo(fn, <<>>, r)

RunIdle ==
    /\ pc = "start"
    /\ params = EmptyParams
    /\ err = NoErr
    /\ log = <<>>
    /\ diff = NoDiff
    /\ results = NoResults
    /\ exitCode = "none"
    /\ envSet = FALSE
    /\ cwd = "orig"
    /\ tmpDirExists = FALSE
    /\ cleanupFailed = FALSE
    /\ stdin = StdinIdle
    /\ caller = "none"

InitSec ==
    /\ RunIdle
    /\ inv = InvIdle
    /\ host = HostIdle
    /\ api = ApiIdle
    /\ pub = PubIdle
    /\ secIn \in SecInputs
    /\ secOut = NotApplied

CallValidateGitUrl ==
    /\ secOut.fn = "none"
    /\ secOut' = Applied("validateGitUrl", validateGitUrl(secIn))
    /\ UNCHANGED <<runVars, secIn, tmpVars, apiVars>>

CallValidateBranchName ==
    /\ secOut.fn = "none"
    /\ secOut' = Applied("validateBranchName", validateBranchName(secIn))
    /\ UNCHANGED <<runVars, secIn, tmpVars, apiVars>>

\* the base directories validateFilePath is called with
BasePaths ==
    { OrigCwdPath, <<"/">>, <<"/","w","/">>, <<"/","w","/",".",".","/","v">> }

CallValidateFilePath ==
    /\ secOut.fn = "none"
    /\ \E base \in BasePaths :
          secOut' = AppliedTo("validateFilePath", base,
                              validateFilePath(secIn, base))
    /\ UNCHANGED <<runVars, secIn, tmpVars, apiVars>>

\* validateInputs with secIn as the organization, the repository or the PR
\* number and the values of the unit tests in the other two places
CallValidateInputs ==
    /\ secOut.fn = "none"
    /\ \E place \in {"org", "repo", "pr"} :
          LET org == IF place = "org" THEN secIn ELSE Str(<<"o","r","g">>)
              repo == IF place = "repo" THEN secIn ELSE Str(<<"r","e","p","o">>)
              pr == IF place = "pr" THEN secIn ELSE Str(<<"1","2","3">>)
          IN  secOut' = AppliedTo("validateInputs", <<place>>,
                                  validateInputs(org, repo, pr))
    /\ UNCHANGED <<runVars, secIn, tmpVars, apiVars>>

\* validateEnvVar(name, secIn) with a name of validateParameters or no name
CallValidateEnvVar ==
    /\ secOut.fn = "none"
    /\ \E name \in { <<"LLM_API_KEY">>, <<"LLM_ENDPOINT">>, <<>> } :
          secOut' = AppliedTo("validateEnvVar", name, validateEnvVar(name, secIn))
    /\ UNCHANGED <<runVars, secIn, tmpVars, apiVars>>

CallEscapeShellArg ==
    /\ secOut.fn = "none"
    /\ secOut' = Applied("escapeShellArg", escapeShellArg(secIn))
    /\ UNCHANGED <<runVars, secIn, tmpVars, apiVars>>

NextSec ==
    \/ CallValidateGitUrl
    \/ CallValidateBranchName
    \/ CallValidateFilePath
    \/ CallValidateInputs
    \/ CallValidateEnvVar
    \/ CallEscapeShellArg

SpecSec == InitSec /\ [][NextSec]_vars

----------------------------------------------------------------------------
(* getDiffFromGit in two processes on one host                             *)

\* the two ways the variants of getDiffFromGit name the directory:
\* createSecureTempDir (timestamp and 8 random bytes) and
\* `/tmp/review-${Date.now()}` (timestamp only)
Variants == {"secure", "timestamp"}

InitTmp ==
    /\ RunIdle
    /\ secIn = JSNull
    /\ secOut = NotApplied
    /\ api = ApiIdle
    /\ pub = PubIdle
    /\ host = HostIdle
    /\ inv \in { [i \in Invocations |-> [InvIdle[i] EXCEPT !.variant = v[i]]] :
                  v \in [Invocations -> Variants] }

DirOf(i) == TmpName(inv[i].stamp, inv[i].suffix)

\* a millisecond passes
Tick ==
    /\ host.clock < MaxClock
    /\ host' = [host EXCEPT !.clock = @ + 1]
    /\ UNCHANGED <<runVars, secVars, apiVars, inv>>

\* the directory name is computed: Date.now(), and crypto.randomBytes(8) in
\* createSecureTempDir
CreateTempDirName(i) ==
    /\ inv[i].pc = "idle"
    /\ \E r \in 1..MaxRand :
         inv' = [inv EXCEPT ![i].pc = "named",
                            ![i].stamp = host.clock,
                            ![i].suffix = IF inv[i].variant = "secure"
                                          THEN r ELSE 0]
    /\ UNCHANGED <<runVars, secVars, apiVars, host>>

\* git clone <url> <tmpDir>: fails when the directory is already there
\* (git refuses a destination that is not empty), and can fail otherwise
CloneInto(i) ==
    /\ inv[i].pc = "named"
    /\ IF host.owner[DirOf(i)] # 0
       THEN /\ inv' = [inv EXCEPT ![i].pc = "catch", ![i].touched = TRUE]
            /\ host' = host
       ELSE \E ok \in BOOLEAN :
              /\ inv' = [inv EXCEPT ![i].pc = IF ok THEN "cloned" ELSE "catch"]
              /\ host' = IF ok THEN [host EXCEPT !.owner[DirOf(i)] = i]
                          ELSE host
    /\ UNCHANGED <<runVars, secVars, apiVars>>

\* chdir into the directory, the optional fetch and the diff: they fail when
\* the directory is gone, and can fail otherwise
DiffIn(i) ==
    /\ inv[i].pc = "cloned"
    /\ \E ok \in BOOLEAN :
         inv' = [inv EXCEPT ![i].pc = IF ok /\ host.owner[DirOf(i)] = i
                                       THEN "cleanup" ELSE "catch"]
    /\ UNCHANGED <<runVars, secVars, apiVars, host>>

\* rm -rf <tmpDir> of the try block and of the catch block: it removes what
\* is under the name, whoever cloned it
RemoveDir(i) ==
    /\ inv[i].pc \in {"cleanup", "catch"}
    /\ inv' = [inv EXCEPT ![i].pc = IF inv[i].pc = "cleanup"
                                    THEN "returned" ELSE "threw",
                          ![i].touched = @ \/ host.owner[DirOf(i)] \notin {0, i}]
    /\ host' = [host EXCEPT !.owner[DirOf(i)] = 0]
    /\ UNCHANGED <<runVars, secVars, apiVars>>

NextTmp ==
    \/ Tick
    \/ \E i \in Invocations : CreateTempDirName(i)
    \/ \E i \in Invocations : CloneInto(i)
    \/ \E i \in Invocations : DiffIn(i)
    \/ \E i \in Invocations : RemoveDir(i)

SpecTmp == InitTmp /\ [][NextTmp]_vars

----------------------------------------------------------------------------
(* The GitHub API path of the diff acquirer: the request and its retries   *)

\* what one attempt of the pull-request request can end with: the diff, an
\* HTTP error status, or a connection reset
ApiOutcomes == {"200", "400", "401", "403", "404", "429", "500", "503", "reset"}

\* a policy that retries every failure
Retryable_AnyFailure(o) == o # "200"

\* the retryable predicate of the policy: 5xx, 429 and connection reset
Retryable(o) == o \in {"500", "503", "429", "reset"}

\* the error the acquirer surfaces for a failed attempt
ApiErrorOf(o) ==
    CASE o = "404" -> "PR not found"
      [] o = "401" -> "authentication failed"
      [] o = "403" -> "permission denied"
      [] Retryable(o) -> "transient failure"
      [] OTHER -> "request failed"

InitApi ==
    /\ RunIdle
    /\ secIn = JSNull
    /\ secOut = NotApplied
    /\ inv = InvIdle
    /\ host = HostIdle
    /\ api = ApiIdle
    /\ pub = PubIdle

\* one attempt of the request; after a success the remaining quota is
\* inspected and, below the low-water mark, the reset time is waited for
ApiAttempt ==
    /\ api.state \in {"idle", "ready"}
    /\ \E o \in ApiOutcomes, low \in BOOLEAN :
         LET n == api.attempts + 1
         IN  api' = [api EXCEPT
                 !.attempts = n,
                 !.outcomes = Append(@, o),
                 !.state = IF o = "200" THEN "done"
                           ELSE IF Retryable(o) /\ n < MaxAttempts THEN "backoff"
                           ELSE "failed",
                 !.error = IF o = "200" \/ (Retryable(o) /\ n < MaxAttempts)
                           THEN "" ELSE ApiErrorOf(o),
                 !.rateWait = (o = "200" /\ low)]
    /\ UNCHANGED <<runVars, secVars, tmpVars, pub>>

\* the wait before the next attempt; the delay doubles
ApiBackoff ==
    /\ api.state = "backoff"
    /\ api' = [api EXCEPT !.state = "ready",
                          !.waits = Append(@, api.delay),
                          !.delay = 2 * @]
    /\ UNCHANGED <<runVars, secVars, tmpVars, pub>>

NextApi ==
    \/ ApiAttempt
    \/ ApiBackoff

SpecApi == InitApi /\ [][NextApi]_vars

----------------------------------------------------------------------------
(* The review orchestrator: publishing, then the result writer             *)

\* a line-level comment: whether it has a file path and a line number
LineComments == [file : BOOLEAN, line : BOOLEAN]

Positioned(c) == c.file /\ c.line

\* the comment lists of a review result
PubBatches == UNION { [1..n -> LineComments] : n \in 0..MaxPosts }

Call(kind, idx, ok) == [kind |-> kind, idx |-> idx, ok |-> ok]

InitPub ==
    /\ RunIdle
    /\ secIn = JSNull
    /\ secOut = NotApplied
    /\ inv = InvIdle
    /\ host = HostIdle
    /\ api = ApiIdle
    /\ pub \in { [PubIdle EXCEPT !.enabled = e, !.comments = c] :
                  e \in BOOLEAN, c \in PubBatches }

\* the feature flag is off: nothing is posted
SkipPublishing ==
    /\ pub.state = "idle" /\ ~pub.enabled
    /\ pub' = [pub EXCEPT !.state = "write"]
    /\ UNCHANGED <<runVars, secVars, tmpVars, api>>

\* the narrative summary is posted as one general comment; its failure is
\* logged and skipped
PostSummary ==
    /\ pub.state = "idle" /\ pub.enabled
    /\ \E ok \in BOOLEAN :
         pub' = [pub EXCEPT !.state = "head",
                            !.calls = Append(@, Call("summary", 0, ok))]
    /\ UNCHANGED <<runVars, secVars, tmpVars, api>>

\* the head commit of the pull request is fetched once for the batch, when
\* the batch has a comment to position
FetchHeadCommit ==
    /\ pub.state = "head"
    /\ IF \E k \in 1..Len(pub.comments) : Positioned(pub.comments[k])
       THEN pub' = [pub EXCEPT !.state = "lines", !.sha = 1,
                               !.calls = Append(@, Call("head", 0, TRUE))]
       ELSE pub' = [pub EXCEPT !.state = "write"]
    /\ UNCHANGED <<runVars, secVars, tmpVars, api>>

\* a publisher that gives the batch up at the first failed post
PostLineComment_AbortOnFailure ==
    /\ pub.state = "lines"
    /\ LET k == pub.next
           last == k = Len(pub.comments)
       IN  IF Positioned(pub.comments[k])
           THEN \E ok \in BOOLEAN :
                  pub' = [pub EXCEPT
                            !.calls = Append(@, Call("line", k, ok)),
                            !.next = k + 1,
                            !.state = IF last \/ ~ok THEN "write" ELSE "lines"]
           ELSE pub' = [pub EXCEPT !.next = k + 1,
                                   !.state = IF last THEN "write" ELSE "lines"]
    /\ UNCHANGED <<runVars, secVars, tmpVars, api>>

\* the next comment of the batch: posted at the head commit when it has a
\* file and a line, passed over otherwise; a failed post is logged and
\* skipped
PostLineComment ==
    /\ pub.state = "lines"
    /\ LET k == pub.next
           last == k = Len(pub.comments)
       IN  IF Positioned(pub.comments[k])
           THEN \E ok \in BOOLEAN :
                  pub' = [pub EXCEPT
                            !.calls = Append(@, Call("line", k, ok)),
                            !.next = k + 1,
                            !.state = IF last THEN "write" ELSE "lines"]
           ELSE pub' = [pub EXCEPT !.next = k + 1,
                                   !.state = IF last THEN "write" ELSE "lines"]
    /\ UNCHANGED <<runVars, secVars, tmpVars, api>>

\* the result writer: a failed write is fatal
WritePublished ==
    /\ pub.state = "write"
    /\ \E ok \in BOOLEAN :
         pub' = [pub EXCEPT !.state = "exit", !.written = ok,
                            !.calls = Append(@, Call("write", 0, ok))]
    /\ UNCHANGED <<runVars, secVars, tmpVars, api>>

PubExit ==
    /\ pub.state = "exit"
    /\ pub' = [pub EXCEPT !.state = "exited",
                          !.exitCode = IF pub.written THEN "0" ELSE "1"]
    /\ UNCHANGED <<runVars, secVars, tmpVars, api>>

NextPub ==
    \/ SkipPublishing
    \/ PostSummary
    \/ FetchHeadCommit
    \/ PostLineComment
    \/ WritePublished
    \/ PubExit

SpecPub == InitPub /\ [][NextPub]_vars

----------------------------------------------------------------------------
(* Properties                                                              *)

HasOp(op) == \E i \in 1..Len(log) : log[i].op = op

HasExec(word) ==
    \E i \in 1..Len(log) : log[i].op = "exec" /\ StartsWith(log[i].arg, word)

AllWhiteSpace(text) == \A i \in 1..Len(text) : text[i] \in WhiteSpace

\* the acquisition operations that have been started
StartedSources ==
    { src \in {"stdin", "file", "git"} :
        \/ src = "stdin" /\ (stdin.listening \/ HasOp("stdin.listen"))
        \/ src = "file" /\ (pc = "file" \/ HasOp("file.exists"))
        \/ src = "git" /\ (pc = "git_clone" \/ HasExec(GitCloneWord)) }

Configured(v) == v.t = "string" /\ v.s # <<>>

\* C1: once getDiffData has been called with at least one source configured,
\* exactly one acquisition operation has been started, the configured one of
\* highest precedence in the order stdin > file > git clone, and the run
\* never shows a side effect of a source of lower precedence (no look at the
\* diff file and no child process under stdin, no child process under file).
C1_OneSourceByPrecedence ==
    /\ Cardinality(StartedSources) <= 1
    /\ (HasOp("getDiffData")
        /\ (params.useStdin \/ Configured(params.diffFile) \/ Configured(params.gitUrl)))
       => StartedSources =
             { IF params.useStdin THEN "stdin"
               ELSE IF Configured(params.diffFile) THEN "file"
               ELSE "git" }
    /\ params.useStdin
       => ~HasOp("file.exists") /\ ~HasOp("file.read") /\ ~HasOp("exec")
    /\ (~params.useStdin /\ Configured(params.diffFile)) => ~HasOp("exec")

\* all three sources are configured and stdin is the one being read
C1_Witness ==
    /\ params.useStdin /\ Configured(params.diffFile) /\ Configured(params.gitUrl)
    /\ HasOp("getDiffData")
    /\ stdin.listening

GitReturned == HasOp("git.return")
GitThrew == HasOp("git.throw")

\* C2 as stated: whenever getDiffFromGit has returned or thrown, the
\* temporary directory is gone.
C2_AlwaysRemoved == (GitReturned \/ GitThrew) => ~tmpDirExists

\* C2, amended: when getDiffFromGit has returned, the temporary directory is
\* gone; when it has thrown, the directory is gone unless the cleanup of the
\* catch block itself failed (the chdir back or the rm -rf threw), which the
\* code only warns about.
C2_RemovedUnlessCleanupFailed ==
    /\ GitReturned => ~tmpDirExists
    /\ (GitThrew /\ tmpDirExists) => (cleanupFailed /\ HasOp("warn.cleanup"))
    /\ (GitThrew /\ ~cleanupFailed) => HasExec(RmWord)

\* the clone had succeeded, a later step failed and the catch block removed
\* the directory
C2_Witness ==
    /\ GitThrew /\ HasOp("chdir.tmp")
    /\ ~tmpDirExists /\ ~cleanupFailed

ValidationMessages ==
    {"Missing required parameters",
     "Must provide either GIT_URL, --diff-file, or --stdin",
     "Invalid git URL", "Invalid base branch name", "Invalid head branch name",
     "Invalid diff file path", "Invalid output file path",
     "Environment variable name is required",
     "Environment variable value must be a string",
     "Environment variable contains suspicious pattern"}

ValidationRejected == err.msg \in ValidationMessages

WritingSucceeded == HasOp("write.metadata")

\* the position of the first event op in the log (0 when there is none)
FirstOp(op) ==
    IF HasOp(op)
    THEN CHOOSE i \in 1..Len(log) :
            log[i].op = op /\ \A j \in 1..(i - 1) : log[j].op # op
    ELSE 0

\* C4: the process ends with exit code 0 exactly when every stage up to and
\* including the writing of the results succeeded, and an exit with a
\* non-zero code comes after the error sidecar has been written.
C4_ExitZeroIffStagesSucceed ==
    /\ exitCode = "0" => WritingSucceeded
    /\ (exitCode # "none" /\ WritingSucceeded) => exitCode = "0"
    /\ exitCode = "1" =>
          (HasOp("write.error") /\ FirstOp("write.error") < FirstOp("exit"))

AcquiredEmpty == diff.have /\ AllWhiteSpace(diff.text)

NoChangesWritten ==
    \E i \in 1..Len(log) :
        /\ log[i].op = "write.result"
        /\ log[i].body.summary = "No changes found"
        /\ log[i].body.totalComments = 0

C6_GitEmptyDiffIsError ==
    (GitReturned /\ AcquiredEmpty) =>
        /\ pc \notin {"write_nochanges", "returned"}
        /\ ~NoChangesWritten
        /\ exitCode # "0"

\* the chunks of a list put one after the other
RECURSIVE Flatten(_)
Flatten(chunks) ==
    IF chunks = <<>> THEN <<>> ELSE Head(chunks) \o Flatten(Tail(chunks))

\* C7: when 'end' arrives before any 'error' and before the timeout, the
\* promise of getDiffFromStdin is resolved, and a resolved promise carries
\* the chunks received before 'end' put together in their order of arrival;
\* this is the diff the run goes on with.
C7_ResolvesWithChunksInOrder ==
    /\ (stdin.ended /\ ~stdin.errored /\ ~stdin.timerFired)
          => stdin.state = "resolved"
    /\ stdin.state = "resolved"
          => (stdin.ended /\ stdin.value = Flatten(stdin.received))
    /\ (stdin.state = "resolved" /\ diff.have)
          => diff.text = Flatten(stdin.received)

\* two different chunks were received and the run has taken the result
C7_Witness ==
    /\ stdin.state = "resolved" /\ diff.have
    /\ Len(stdin.received) = 2
    /\ stdin.received[1] # stdin.received[2]

\* C8: the promise of getDiffFromStdin always settles in the end; a timer
\* that fires while it is pending rejects it with 'Timeout reading from
\* stdin', and a rejected promise hands no chunk to the run.
C8_StdinSettles ==
    /\ (stdin.listening ~> stdin.state # "pending")
    /\ [][(stdin.state = "pending" /\ ~stdin.timerFired /\ stdin'.timerFired)
            => (stdin'.state = "rejected"
                /\ stdin'.reason = "Timeout reading from stdin")]_vars
    /\ [](stdin.state = "rejected" => (~diff.have /\ diff.text = <<>>))

\* the timer fired after chunks had arrived and the run failed with the
\* timeout error
C8_Witness ==
    /\ stdin.state = "rejected"
    /\ stdin.reason = "Timeout reading from stdin"
    /\ ~stdin.ended /\ ~stdin.errored
    /\ Len(stdin.received) > 0
    /\ err.msg = "Timeout reading from stdin"

\* t is s without its leading and trailing white space
IsTrimOf(t, s) ==
    \E i \in 0..Len(s), j \in 0..Len(s) :
        /\ i + j <= Len(s)
        /\ t = SubSeq(s, i + 1, Len(s) - j)
        /\ AllWhiteSpace(SubSeq(s, 1, i))
        /\ AllWhiteSpace(SubSeq(s, Len(s) - j + 1, Len(s)))
        /\ (t # <<>> => (t[1] \notin WhiteSpace /\ t[Len(t)] \notin WhiteSpace))

\* s is https://github.com/<owner>/<repo>.git with owner and repo made of
\* word characters, hyphens and dots
HasGithubShape(s) ==
    \E n \in 1..Len(s), m \in 1..Len(s) :
        /\ Len(s) = Len(HttpsGithub) + n + 1 + m + Len(DotGit)
        /\ SubSeq(s, 1, Len(HttpsGithub)) = HttpsGithub
        /\ \A i \in 1..n : s[Len(HttpsGithub) + i] \in WordChars \cup {"-", "."}
        /\ s[Len(HttpsGithub) + n + 1] = "/"
        /\ \A i \in 1..m :
              s[Len(HttpsGithub) + n + 1 + i] \in WordChars \cup {"-", "."}
        /\ SubSeq(s, Len(s) - 3, Len(s)) = <<".","g","i","t">>

\* C9: validateGitUrl succeeds only for a string whose trimmed form has the
\* shape https://github.com/<owner>/<repo>.git, and then returns exactly the
\* trimmed input; every other input (the SSH form, a non-string, the empty
\* string) is rejected.
C9_GitUrlShape ==
    secOut.fn = "validateGitUrl" =>
        /\ secOut.ok =>
              /\ secIn.t = "string"
              /\ IsTrimOf(secOut.value, secIn.s)
              /\ HasGithubShape(secOut.value)
        /\ (secIn.t # "string" \/ secIn.s = <<>>) => ~secOut.ok
        /\ (secIn.t = "string"
            /\ \A t \in {Trim(secIn.s)} : ~HasGithubShape(t)) => ~secOut.ok
        /\ (secIn.t = "string" /\ Includes(secIn.s, SshGithub)) => ~secOut.ok

\* a padded URL was accepted and returned without its padding
C9_Witness ==
    /\ secOut.fn = "validateGitUrl" /\ secOut.ok
    /\ secIn.s # secOut.value
    /\ secOut.value = ValidUrl

HasDenyChar(s) == \E i \in 1..Len(s) : s[i] \in DenyChars

\* C10 as stated: a string with a denylist character anywhere in it is
\* rejected by validateGitUrl and by validateBranchName.
C10_DenyCharAnywhereRejected ==
    (secOut.fn \in {"validateGitUrl", "validateBranchName"}
     /\ secIn.t = "string" /\ HasDenyChar(secIn.s)) => ~secOut.ok

\* C10, amended: a string whose trimmed form holds a denylist character is
\* rejected by validateGitUrl and by validateBranchName; a newline, carriage
\* return or tab at either end of the input is removed by the trim and does
\* not make the input fail, and the value returned holds no denylist
\* character.
C10_DenyCharAfterTrimRejected ==
    (secOut.fn \in {"validateGitUrl", "validateBranchName"} /\ secIn.t = "string")
    => /\ (\E t \in {secOut.value} :
              secOut.ok /\ HasDenyChar(t)) = FALSE
       /\ (\A i \in 1..Len(secIn.s) :
              (secIn.s[i] \in DenyChars
               /\ ~AllWhiteSpace(SubSeq(secIn.s, 1, i))
               /\ ~AllWhiteSpace(SubSeq(secIn.s, i, Len(secIn.s))))
              => ~secOut.ok)

\* a denylist character inside a branch name made validateBranchName fail
C10_Witness ==
    /\ secOut.fn = "validateBranchName" /\ ~secOut.ok
    /\ secIn.s = <<"m","a","$","i","n">>

\* C11: validateBranchName accepts only an input whose trimmed form is not
\* empty and is made of the characters [A-Za-z0-9_./-]; it rejects every
\* input whose trimmed form holds a space, the sequence '..', a leading '/'
\* or '//'; 'feature/my-fix' is accepted and '../../etc/passwd' rejected; the
\* value returned is exactly the trimmed input.
C11_BranchNameShape ==
    secOut.fn = "validateBranchName" =>
        /\ secOut.ok =>
              /\ secIn.t = "string"
              /\ IsTrimOf(secOut.value, secIn.s)
              /\ secOut.value # <<>>
              /\ \A i \in 1..Len(secOut.value) :
                    secOut.value[i] \in WordChars \cup {".", "/", "-"}
        /\ (secIn.t = "string" /\ \E t \in {Trim(secIn.s)} :
               /\ IsTrimOf(t, secIn.s)
               /\ \/ \E i \in 1..Len(t) : t[i] = " "
                  \/ \E i \in 1..(Len(t) - 1) : t[i] = "." /\ t[i + 1] = "."
                  \/ \E i \in 1..(Len(t) - 1) : t[i] = "/" /\ t[i + 1] = "/"
                  \/ (t # <<>> /\ t[1] = "/"))
              => ~secOut.ok
        /\ secIn.s = FeatureMyFix => (secOut.ok /\ secOut.value = FeatureMyFix)
        /\ secIn.s = EtcPasswd => ~secOut.ok

\* a padded branch name with a slash, a dot and a hyphen was accepted and
\* returned without its padding
C11_Witness ==
    /\ secOut.fn = "validateBranchName" /\ secOut.ok
    /\ secOut.value = <<"a","/","-">>
    /\ secIn.s = <<" ","a","/","-","\n">>

\* the directory a base path names: /w for /w/ and /v for /w/../v
ResolvedBase(base) ==
    CASE base = <<"/","w","/">> -> <<"/","w">>
      [] base = <<"/","w","/",".",".","/","v">> -> <<"/","v">>
      [] OTHER -> base

\* the absolute path p names dir or a place below it, and has no empty, '.'
\* or '..' segment
InsideDir(p, dir) ==
    /\ p # <<>> /\ p[1] = "/"
    /\ \/ p = dir
       \/ dir = <<"/">>
       \/ /\ Len(p) > Len(dir) + 1
          /\ SubSeq(p, 1, Len(dir)) = dir
          /\ p[Len(dir) + 1] = "/"
    /\ ~\E i \in 1..(Len(p) - 1) : p[i] = "/" /\ p[i + 1] = "/"
    /\ p[Len(p)] = "/" => p = <<"/">>
    /\ \A i \in 1..Len(p) :
          (p[i] = "." /\ (i = 1 \/ p[i - 1] = "/")) =>
             /\ i < Len(p)
             /\ p[i + 1] # "/"
             /\ (p[i + 1] = "." => (i + 1 < Len(p) /\ p[i + 2] # "/"))

\* C12: validateFilePath rejects every path that contains '..', contains '~'
\* or starts with '/', and a path it returns is absolute and is the resolved
\* base directory or a place inside it.
C12_FilePathInsideBase ==
    secOut.fn = "validateFilePath" =>
        /\ (secIn.t = "string"
            /\ \/ \E i \in 1..(Len(secIn.s) - 1) :
                     secIn.s[i] = "." /\ secIn.s[i + 1] = "."
               \/ \E i \in 1..Len(secIn.s) : secIn.s[i] = "~"
               \/ (secIn.s # <<>> /\ secIn.s[1] = "/"))
              => ~secOut.ok
        /\ secOut.ok => InsideDir(secOut.value, ResolvedBase(secOut.arg))

\* a path with a '.' segment and a directory was accepted below /v
C12_Witness ==
    /\ secOut.fn = "validateFilePath" /\ secOut.ok
    /\ secIn.s = <<" ",".","/","a">>
    /\ secOut.arg = <<"/","w","/",".",".","/","v">>
    /\ secOut.value = <<"/","v","/","a">>

\* s is one or more decimal digits
IsDigitString(s) ==
    /\ Len(s) >= 1
    /\ \A i \in 1..Len(s) :
          s[i] \in {"0","1","2","3","4","5","6","7","8","9"}

InvalidName(v) ==
    /\ v.t = "string" /\ v.s # <<>>
    /\ \E i \in 1..Len(v.s) : v.s[i] \notin WordChars \cup {"-"}

\* C14: a run whose organization or repository name holds a character
\* outside [A-Za-z0-9_-] is rejected by the validation and never gets to
\* acquire a diff.
C14_InvalidNameRejectedBeforeDiff ==
    (InvalidName(params.orgName) \/ InvalidName(params.repoName))
    => /\ pc \in {"start", "parsed", "catch", "exit", "exited"}
       /\ ~HasOp("getDiffData")
       /\ ~diff.have

\* one of '$(', '`', '${', ';', '&', '|', '<', '>', newline, carriage return
\* and NUL occurs in s
HasEnvPattern(s) ==
    \/ \E i \in 1..Len(s) :
          s[i] \in {BackTick, ";", "&", "|", "<", ">", "\n", "\r", "NUL"}
    \/ \E i \in 1..(Len(s) - 1) : s[i] = "$" /\ s[i + 1] \in {"(", "{"}

\* C15: called with the name of a variable, validateEnvVar returns null and
\* undefined as they are; it returns a string as it is when none of its
\* patterns occurs in it and otherwise throws an error that names the
\* variable; a value that is neither a string nor null nor undefined is
\* rejected.
C15_EnvVarPassThrough ==
    (secOut.fn = "validateEnvVar" /\ secOut.arg # <<>>)
    => /\ secIn.t \in {"null", "undefined"}
             => (secOut.ok /\ secOut.value = secIn)
       /\ (secIn.t = "string" /\ ~HasEnvPattern(secIn.s))
             => (secOut.ok /\ secOut.value = secIn)
       /\ (secIn.t = "string" /\ HasEnvPattern(secIn.s))
             => (~secOut.ok /\ secOut.name = secOut.arg)
       /\ secIn.t \notin {"string", "null", "undefined"} => ~secOut.ok

\* a value with '$' and '{' apart from each other, padded with white space,
\* was returned as it is
C15_Witness ==
    /\ secOut.fn = "validateEnvVar" /\ secOut.arg = <<"LLM_API_KEY">>
    /\ secOut.ok
    /\ secIn \in { Str(<<"{","$","a">>), Str(<<" ","m","a","i","n">>) }
    /\ secOut.value = secIn

\* the characters the shell gives a meaning to outside quotes
ShellMeta ==
    {"$", BackTick, ";", "&", "|", "(", ")", "<", ">", "\"", "*", "?", "~",
     "#", "NUL"}

\* POSIX word splitting of s from position i on. quoted: inside single
\* quotes; cur: the word being read, open when inWord; special: a character
\* was given a meaning by the shell or a quote was left open.
RECURSIVE ShellSplit(_, _, _, _, _, _, _)
ShellSplit(s, i, quoted, cur, inWord, words, special) ==
    IF i > Len(s)
    THEN [words |-> IF inWord THEN Append(words, cur) ELSE words,
          special |-> special \/ quoted]
    ELSE LET c == s[i]
         IN  IF quoted
             THEN IF c = "'"
                  THEN ShellSplit(s, i + 1, FALSE, cur, TRUE, words, special)
                  ELSE ShellSplit(s, i + 1, TRUE, Append(cur, c), TRUE, words,
                                  special)
             ELSE IF c = "'"
             THEN ShellSplit(s, i + 1, TRUE, cur, TRUE, words, special)
             ELSE IF c = "\\"
             THEN IF i = Len(s)
                  THEN ShellSplit(s, i + 1, FALSE, cur, TRUE, words, TRUE)
                  ELSE ShellSplit(s, i + 2, FALSE, Append(cur, s[i + 1]), TRUE,
                                  words, special)
             ELSE IF c \in {" ", "\t", "\n"}
             THEN ShellSplit(s, i + 1, FALSE, <<>>, FALSE,
                             IF inWord THEN Append(words, cur) ELSE words,
                             special)
             ELSE ShellSplit(s, i + 1, FALSE, Append(cur, c), TRUE, words,
                             special \/ c \in ShellMeta)

\* the number of single quotes in s
RECURSIVE QuoteCount(_)
QuoteCount(s) ==
    IF s = <<>> THEN 0
    ELSE (IF Head(s) = "'" THEN 1 ELSE 0) + QuoteCount(Tail(s))

\* C16: for a non-empty string arg, escapeShellArg(arg) begins and ends with
\* a single quote, holds four characters for every single quote of arg, and
\* is read by the shell as exactly one word equal to arg, no character of
\* it being given a meaning.
C16_ShellRoundTrip ==
    (secOut.fn = "escapeShellArg" /\ secIn.t = "string" /\ secIn.s # <<>>)
    => /\ secOut.ok
       /\ Len(secOut.value) = Len(secIn.s) + 2 + 3 * QuoteCount(secIn.s)
       /\ secOut.value[1] = "'" /\ secOut.value[Len(secOut.value)] = "'"
       /\ ShellSplit(secOut.value, 1, FALSE, <<>>, FALSE, <<>>, FALSE)
             = [words |-> <<secIn.s>>, special |-> FALSE]

\* an argument with a quote, a blank and a dollar sign was escaped
C16_Witness ==
    /\ secOut.fn = "escapeShellArg" /\ secOut.ok
    /\ secIn.s = <<"'", " ", "$">>
    /\ secOut.value = <<"'", "'", "\\", "'", "'", " ", "$", "'">>

\* the last position of the character c in s (0 when it is not there)
LastIndexOf(s, c) ==
    IF \E i \in 1..Len(s) : s[i] = c
    THEN CHOOSE i \in 1..Len(s) :
            s[i] = c /\ \A j \in (i + 1)..Len(s) : s[j] # c
    ELSE 0

\* the path with the extension of its file name replaced by ext; a file name
\* without an extension gets ext added
SidecarOf(path, ext) ==
    LET k == LastIndexOf(path, "/")
        name == SubSeq(path, k + 1, Len(path))
        d == LastIndexOf(name, ".")
        stem == IF d > 0 /\ d < Len(name) THEN SubSeq(name, 1, d - 1) ELSE name
    IN  SubSeq(path, 1, k) \o stem \o ext

\* C17: the metadata sidecar is written to the output path with its file
\* extension replaced by '.metadata.json' and the error sidecar to the
\* output path with its file extension replaced by '.error.json'.
C17_SidecarPaths ==
    \A i \in 1..Len(log) :
        /\ log[i].op = "write.metadata" =>
              /\ i > 1 /\ log[i - 1].op = "write.result"
              /\ log[i].arg = SidecarOf(log[i - 1].arg, MetadataExt)
              /\ log[i].arg # log[i - 1].arg
        /\ log[i].op = "write.error" =>
              log[i].arg = SidecarOf(params.outputFile.s, ErrorExt)

\* C18: in the metadata sidecar totalComments is the number of comments of
\* the result (0 when it has no comments field), totalHunks is
\* metadata.totalHunks (0 when absent) and hasIssues is true exactly when
\* totalComments > 0.
C18_MetadataSummary ==
    \A i \in 1..Len(log) :
        log[i].op = "write.metadata" =>
            /\ log[i].body.totalComments =
                  (IF results.hasComments
                   THEN Cardinality(DOMAIN results.comments) ELSE 0)
            /\ log[i].body.totalHunks =
                  (IF results.hasHunks THEN results.totalHunks ELSE 0)
            /\ log[i].body.hasIssues = (log[i].body.totalComments > 0)
            /\ AcquiredEmpty =>
                  (log[i].body.totalComments = 0 /\ ~log[i].body.hasIssues)

\* a result with two comments and no metadata.totalHunks was written
C18_Witness ==
    \E i \in 1..Len(log) :
        /\ log[i].op = "write.metadata"
        /\ log[i].body.totalComments = 2
        /\ log[i].body.totalHunks = 0
        /\ log[i].body.hasIssues
        /\ ~results.hasHunks

\* the positions in the log of the commands that begin with word
ExecsOf(word) ==
    { i \in 1..Len(log) : log[i].op = "exec" /\ StartsWith(log[i].arg, word) }

\* s between single quotes
Quoted(s) == <<"'">> \o s \o <<"'">>

HeadDiffers == ~Falsy(params.headBranch) /\ params.headBranch.s # params.baseBranch.s

\* C19: getDiffFromGit issues git clone, then git fetch, then git diff; the
\* fetch of the head branch is issued exactly when a head branch is given and
\* differs from the base branch; one diff command is issued, of the form
\* <base>...<head>, with HEAD for <head> when no head branch is given.
C19_GitCommandOrder ==
    /\ Cardinality(ExecsOf(GitCloneWord)) <= 1
    /\ Cardinality(ExecsOf(GitFetchWord)) <= 1
    /\ Cardinality(ExecsOf(GitDiffWord)) <= 1
    /\ \A f \in ExecsOf(GitFetchWord) :
          /\ HeadDiffers
          /\ \E c \in ExecsOf(GitCloneWord) : c < f
          /\ log[f].arg = GitFetchWord \o Quoted(params.headBranch.s) \o <<":">>
                          \o Quoted(params.headBranch.s)
    /\ \A d \in ExecsOf(GitDiffWord) :
          /\ \E c \in ExecsOf(GitCloneWord) : c < d
          /\ \A f \in ExecsOf(GitFetchWord) : f < d
          /\ HeadDiffers => ExecsOf(GitFetchWord) # {}
          /\ log[d].arg = GitDiffWord \o Quoted(params.baseBranch.s)
                          \o <<".", ".", ".">>
                          \o (IF params.headBranch.t = "string"
                              THEN Quoted(params.headBranch.s)
                              ELSE <<"H","E","A","D">>)
    /\ GitReturned => Cardinality(ExecsOf(GitDiffWord)) = 1

\* a run with a head branch other than the base returned from getDiffFromGit
\* after clone, fetch and diff
C19_Witness ==
    /\ GitReturned
    /\ params.headBranch = Str(Feature) /\ params.baseBranch = Str(Main)
    /\ ExecsOf(GitFetchWord) # {} /\ ExecsOf(GitDiffWord) # {}

\* every rm -rf of the temporary directory is issued with the process back
\* in the original directory: no chdir into the temporary directory without
\* a later chdir back comes before it
RmAfterChdirBack ==
    \A r \in ExecsOf(RmWord) :
        \A t \in 1..(r - 1) :
            log[t].op = "chdir.tmp" =>
                \E b \in (t + 1)..(r - 1) : log[b].op = "chdir.orig"

\* C20 as stated: when getDiffFromGit has returned or thrown the working
\* directory is the one of the time of the call, and the change back comes
\* before the removal of the temporary directory.
C20_CwdAlwaysRestored ==
    /\ (GitReturned \/ GitThrew) => cwd = "orig"
    /\ RmAfterChdirBack

\* C20, amended: when getDiffFromGit returns the working directory is the
\* one of the time of the call; when it throws it is that directory unless
\* the process.chdir(originalCwd) of the catch block itself failed, which is
\* only warned about and leaves the process in the temporary directory with
\* no removal attempted; on every path the removal is issued only after the
\* change back.
C20_CwdRestoredUnlessChdirFailed ==
    /\ GitReturned => cwd = "orig"
    /\ (GitThrew /\ cwd # "orig") =>
          /\ cleanupFailed /\ HasOp("warn.cleanup")
          /\ ExecsOf(RmWord) = {}
          /\ tmpDirExists
    /\ (GitThrew /\ ~cleanupFailed) => cwd = "orig"
    /\ RmAfterChdirBack
    /\ cwd # "orig" =>
          (pc \in {"git_diff", "git_chdir_back", "git_catch"} \/ GitThrew)

\* git diff failed inside the temporary directory and the catch block
\* changed back and then removed the directory
C20_Witness ==
    /\ GitThrew /\ err.detail = <<"diff failed">>
    /\ cwd = "orig" /\ ~cleanupFailed
    /\ ExecsOf(RmWord) # {} /\ HasOp("chdir.tmp")

----------------------------------------------------------------------------
(* C21                                                                     *)

MissingRequired == { f \in {"orgName", "repoName", "prNumber", "llmApiKey",
                             "llmEndpoint"} : Falsy(params[f]) }

NoSourceConfigured ==
    Falsy(params.gitUrl) /\ Falsy(params.diffFile) /\ ~params.useStdin

\* the names err.detail lists
ListedNames == { err.detail[i] : i \in 1..Len(err.detail) }

NoAcquisition == ~HasOp("getDiffData") /\ StartedSources = {} /\ ~diff.have

Validated == caller = "run" /\ pc \notin {"start", "parsed"}

\* C21: once validateParameters has run, a missing or empty required
\* parameter has made it throw 'Missing required parameters' with every
\* missing name listed once, and no configured diff source has made it throw
\* 'Must provide either ...'; in both cases the run never calls getDiffData
\* and starts no acquisition.  getDiffData called on its own with no source
\* configured throws 'No valid diff data source' and starts no acquisition.
C21_MissingOrNoSourceRejected ==
    /\ (Validated /\ MissingRequired # {}) =>
          /\ err.msg = "Missing required parameters"
          /\ ListedNames = MissingRequired
          /\ Len(err.detail) = Cardinality(MissingRequired)
          /\ NoAcquisition
    /\ (Validated /\ MissingRequired = {} /\ NoSourceConfigured) =>
          /\ err.msg = "Must provide either GIT_URL, --diff-file, or --stdin"
          /\ NoAcquisition
    /\ (caller = "direct" /\ pc # "getdiff" /\ NoSourceConfigured) =>
          /\ pc = "catch"
          /\ err.msg = "No valid diff data source"
          /\ StartedSources = {} /\ ~diff.have

\* a run rejected for two missing parameters, one of them empty, has exited
C21_Witness ==
    /\ Validated /\ exitCode = "1"
    /\ params.orgName = Str(<<>>)
    /\ err.detail = <<"orgName", "prNumber">>
    /\ NoAcquisition

----------------------------------------------------------------------------
(* C22                                                                     *)

\* invocation i is between the naming of its directory and its return
Running(i) == inv[i].pc \in {"named", "cloned", "cleanup", "catch"}

\* C22: two invocations of the git-clone acquisition that run at the same
\* time have different directory names, and neither has cloned into or
\* removed a directory of the other.
C22_DistinctTmpDirs ==
    \A i, j \in Invocations :
        i # j =>
          /\ (Running(i) /\ Running(j)) => DirOf(i) # DirOf(j)
          /\ ~inv[i].touched

----------------------------------------------------------------------------
(* C23                                                                     *)

OtherFailures == {"400", "401", "403", "404"}

\* C23: a request of the API path is attempted at most 3 times; every
\* attempt but the last ended with a 5xx, a 429 or a connection reset, each
\* further attempt follows a wait, the first wait is the base delay and
\* every wait is twice the one before; a 404, 401 or 403 (or any other
\* failure that is not retryable) ends the request with its error at once.
C23_BoundedRetry ==
    /\ api.attempts = Len(api.outcomes)
    /\ api.attempts <= 3
    /\ \A k \in 1..(Len(api.outcomes) - 1) :
          api.outcomes[k] \in {"500", "503", "429", "reset"}
    /\ \A k \in 1..Len(api.waits) : api.waits[k] = BaseDelay * 2 ^ (k - 1)
    /\ Len(api.waits) = IF api.state \in {"idle", "ready"} THEN api.attempts
                        ELSE api.attempts - 1
    /\ \A k \in 1..Len(api.outcomes) :
          api.outcomes[k] \in OtherFailures =>
            /\ k = Len(api.outcomes)
            /\ api.state = "failed"
            /\ api.error = ApiErrorOf(api.outcomes[k])
    /\ (api.outcomes # <<>> /\ api.outcomes[1] \in OtherFailures) =>
          api.attempts = 1 /\ api.waits = <<>>

\* three attempts, each a retryable failure, with the waits 1 and 2
C23_Witness ==
    /\ api.state = "failed"
    /\ api.outcomes = <<"500", "429", "reset">>
    /\ api.waits = <<BaseDelay, 2 * BaseDelay>>

----------------------------------------------------------------------------
(* C24                                                                     *)

\* the indices of the posts of line comments, in the order of the calls
RECURSIVE LinePosts(_)
LinePosts(calls) ==
    IF calls = <<>> THEN <<>>
    ELSE IF Head(calls).kind = "line"
         THEN <<Head(calls).idx>> \o LinePosts(Tail(calls))
         ELSE LinePosts(Tail(calls))

\* the indices of the comments of the batch that have a file and a line
RECURSIVE PositionedFrom(_, _)
PositionedFrom(cs, k) ==
    IF k > Len(cs) THEN <<>>
    ELSE IF cs[k].file /\ cs[k].line
         THEN <<k>> \o PositionedFrom(cs, k + 1)
         ELSE PositionedFrom(cs, k + 1)

PostFailed == \E i \in 1..Len(pub.calls) :
                 pub.calls[i].kind \in {"summary", "line"} /\ ~pub.calls[i].ok

WriteFailed == \E i \in 1..Len(pub.calls) :
                  pub.calls[i].kind = "write" /\ ~pub.calls[i].ok

\* C24: with publishing enabled, once the batch is over every comment that
\* has a file and a line has been posted or tried exactly once, in the order
\* of the batch, whichever posts failed; the run goes on to write the
\* results, and unless that write itself fails the results are written and
\* the exit code is 0.
C24_PostFailureSkipped ==
    pub.enabled =>
      /\ pub.state \in {"write", "exit", "exited"} =>
            LinePosts(pub.calls) = PositionedFrom(pub.comments, 1)
      /\ pub.state \in {"exit", "exited"} =>
            (pub.written <=> ~WriteFailed)
      /\ pub.state = "exited" =>
            (pub.exitCode = "0" <=> ~WriteFailed)

\* the second of three line comments failed to post, the other two were
\* posted, the results are written and the exit code is 0
C24_Witness ==
    /\ pub.enabled /\ pub.state = "exited"
    /\ Len(pub.comments) = 3
    /\ \E i, j, k \in 1..Len(pub.calls) :
         /\ i < j /\ j < k
         /\ pub.calls[i] = Call("line", 1, TRUE)
         /\ pub.calls[j] = Call("line", 2, FALSE)
         /\ pub.calls[k] = Call("line", 3, TRUE)
    /\ pub.written /\ pub.exitCode = "0"

----------------------------------------------------------------------------
(* C25                                                                     *)

IndexesOf(op) == { i \in 1..Len(log) : log[i].op = op }

\* every event of op1 comes before every event of op2
Before(op1, op2) == \A i \in IndexesOf(op1), j \in IndexesOf(op2) : i < j

\* writeResults is about to be called or has written
WriteResultsCalled ==
    pc \in {"write", "write_nochanges"} \/ HasOp("write.result")

\* C25: in a run, the LLM environment is set, getDiffData is called,
\* reviewChanges is called and the result file is written at most once each
\* and in that order; the environment is set only after validateParameters
\* has accepted the parsed parameters; reviewChanges is called only with the
\* acquired diff, which is not empty; writeResults is called only with an
\* acquired diff and, when that diff is not empty, with the results of the
\* review.
C25_StagesInOrderOnce ==
    caller = "run" =>
      /\ \A op \in {"env", "getDiffData", "review", "write.result",
                     "write.metadata"} : Cardinality(IndexesOf(op)) <= 1
      /\ Before("env", "getDiffData")
      /\ Before("getDiffData", "review")
      /\ Before("review", "write.result")
      /\ Before("write.result", "write.metadata")
      /\ HasOp("getDiffData") => HasOp("env")
      /\ HasOp("env") =>
            /\ pc \notin {"start", "parsed"}
            /\ ~ValidationRejected
            /\ MissingRequired = {} /\ ~NoSourceConfigured
            /\ ~Falsy(params.gitUrl) => validateGitUrl(params.gitUrl).ok
            /\ validateBranchName(params.baseBranch).ok
      /\ HasOp("review") =>
            /\ HasOp("getDiffData") /\ diff.have
            /\ ~EmptyDiff(diff.text)
            /\ \A i \in IndexesOf("review") : log[i].arg = diff.text
      /\ WriteResultsCalled =>
            /\ HasOp("getDiffData") /\ diff.have
            /\ IF EmptyDiff(diff.text)
               THEN ~HasOp("review") /\ results = NoChangesResults
               ELSE HasOp("review") /\ results \in ReviewResults

\* a run that went through every stage and ended with exit code 0
C25_Witness ==
    /\ caller = "run" /\ exitCode = "0"
    /\ HasOp("env") /\ HasOp("getDiffData") /\ HasOp("review")
    /\ HasOp("write.result") /\ HasOp("write.metadata")

----------------------------------------------------------------------------
(* C26                                                                     *)

Settled == stdin.state # "pending"

----------------------------------------------------------------------------
(* C27                                                                     *)

\* C27: a run never writes both the metadata sidecar and the error sidecar:
\* once writeResults has written the result file and the metadata file, no
\* error sidecar is written and the exit code is not 1.
C27_SuccessXorError ==
    (HasOp("write.result") /\ HasOp("write.metadata")) =>
        ~HasOp("write.error") /\ exitCode # "1"

----------------------------------------------------------------------------
(* C28                                                                     *)

\* the directory part of a path, up to its last '/'
DirName(path) == SubSeq(path, 1, LastIndexOf(path, "/"))

\* C28: the metadata sidecar writeResults writes is another file than the
\* primary result file and lies in the same directory.
C28_SidecarBesidePrimary ==
    \A i \in 1..Len(log) :
        log[i].op = "write.metadata" =>
          /\ i > 1 /\ log[i - 1].op = "write.result"
          /\ log[i].arg # log[i - 1].arg
          /\ DirName(log[i].arg) = DirName(log[i - 1].arg)

----------------------------------------------------------------------------
(* C29                                                                     *)

\* the step that failed inside the try block of getDiffFromGit
FailedStep == IF Len(err.detail) = 1 THEN err.detail[1] ELSE ""

\* C29: getDiffFromGit throws 'Git diff failed' only for a failure of the
\* clone, the fetch or the diff (or of their arguments), never for a failure
\* of the chdir back or of the rm -rf alone; when it returns, it returns the
\* text git diff produced.
C29_CleanupFailureNotFatal ==
    /\ (GitThrew /\ err.msg = "Git diff failed") =>
          FailedStep \notin {"chdir failed", "rm failed"}
    /\ (HasExec(GitDiffWord) /\ pc \in {"git_chdir_back", "git_rm"}) =>
          diff.text \in DiffTexts
    /\ GitReturned => diff.have

----------------------------------------------------------------------------
(* C30                                                                     *)

\* the words the shell makes of a command line
WordsOf(cmd) == ShellSplit(cmd, 1, FALSE, <<>>, FALSE, <<>>, FALSE).words

BeginsWithDash(s) == s # <<>> /\ s[1] = "-"

\* C30: no base or head branch that validateParameters has accepted with
\* validateBranchName begins with '-', and no word that follows the
\* subcommand in the git fetch and git diff command lines of getDiffFromGit
\* begins with '-'.
C30_NoOptionBranch ==
    /\ (caller = "run" /\ HasOp("env")) =>
          /\ ~BeginsWithDash(params.baseBranch.s)
          /\ ~BeginsWithDash(params.headBranch.s)
    /\ \A i \in ExecsOf(GitFetchWord) \cup ExecsOf(GitDiffWord) :
          LET w == WordsOf(log[i].arg)
          IN  \A k \in 3..Len(w) : ~BeginsWithDash(w[k])

=============================================================================
